---- MODULE Spec2Model ----
(***************************************************************************)
(* A model of miau-index: the anime unification service                    *)
(* (AnimeUnificationService: fetchAndUnify, searchAndUnify, unifyAnimeData) *)
(* and the Nyaa torrent service (NyaaService: title extraction, mapping,   *)
(* deduplication).                                                         *)
(*                                                                         *)
(* JavaScript strings are modelled as sequences of one-character strings,  *)
(* so that length, ordering (Array.prototype.sort's default code-unit      *)
(* order) and regular-expression matching are computed, not assumed.       *)
(* An optional value (T | undefined) is the record Some(v) or None.        *)
(***************************************************************************)
EXTENDS Integers, Sequences, FiniteSets, TLC

(***************************************************************************)
(* Strings                                                                 *)
(***************************************************************************)

\* The characters used by the model, in increasing UTF-16 code-unit order.
CharTable ==
  << " ", "#", "-", "0", "1", "2", "3", "4", "5", "6", "7", "8", "9", "A", "B", "C", "E", "K", "L", "M",
     "N", "P", "S", "T", "U", "V", "[", "a", "e", "p", "q", "r", "w", "x",
     "y", "z" >>

\* The rank of a character in code-unit order.
Code(c) == CHOOSE i \in 1..Len(CharTable) : CharTable[i] = c

\* a < b in the order Array.prototype.sort() uses by default: code units
\* compared left to right, a proper prefix first.
RECURSIVE StrLess(_, _)
StrLess(a, b) ==
  IF b = <<>> THEN FALSE
  ELSE IF a = <<>> THEN TRUE
  ELSE IF Code(Head(a)) < Code(Head(b)) THEN TRUE
  ELSE IF Code(Head(a)) > Code(Head(b)) THEN FALSE
  ELSE StrLess(Tail(a), Tail(b))

\* T | undefined
None == [some |-> FALSE, v |-> <<>>]
NoNumber == [some |-> FALSE, v |-> 0]
NoBoolean == [some |-> FALSE, v |-> FALSE]
Some(x) == [some |-> TRUE, v |-> x]

\* JavaScript truthiness of an optional string: defined and not "".
Truthy(o) == o.some /\ o.v # <<>>

\* a || b on optional strings.
OrElse(a, b) == IF Truthy(a) THEN a ELSE b

(***************************************************************************)
(* Sequence helpers                                                        *)
(***************************************************************************)

Range(s) == { s[i] : i \in DOMAIN s }

\* Array.prototype.flat over a sequence of sequences.
RECURSIVE Flat(_)
Flat(ss) == IF ss = <<>> THEN <<>> ELSE Head(ss) \o Flat(Tail(ss))

\* Stable insertion of string x into a sequence sorted in code-unit order:
\* x goes before the first element it is strictly less than.
RECURSIVE InsertString(_, _)
InsertString(x, s) ==
  IF s = <<>> THEN <<x>>
  ELSE IF StrLess(x, Head(s)) THEN <<x>> \o s
  ELSE <<Head(s)>> \o InsertString(x, Tail(s))

\* Array.prototype.sort() with no comparator, on an array of strings.
RECURSIVE SortStrings(_)
SortStrings(s) ==
  IF s = <<>> THEN <<>>
  ELSE InsertString(s[Len(s)], SortStrings(SubSeq(s, 1, Len(s) - 1)))

\* A comparator that also moves x before an element of equal length: the
\* later of two equally long strings would come first.
RECURSIVE InsertByLength_TieLast(_, _)
InsertByLength_TieLast(x, s) ==
  IF s = <<>> THEN <<x>>
  ELSE IF Len(x) >= Len(Head(s)) THEN <<x>> \o s
  ELSE <<Head(s)>> \o InsertByLength_TieLast(x, Tail(s))

\* Stable insertion for sort((a, b) => b.length - a.length): x goes before
\* the first element that is strictly shorter.
RECURSIVE InsertByLength(_, _)
InsertByLength(x, s) ==
  IF s = <<>> THEN <<x>>
  ELSE IF Len(x) > Len(Head(s)) THEN <<x>> \o s
  ELSE <<Head(s)>> \o InsertByLength(x, Tail(s))

\* Array.prototype.sort((a, b) => b.length - a.length); the sort is stable.
RECURSIVE SortByLengthDesc(_)
SortByLengthDesc(s) ==
  IF s = <<>> THEN <<>>
  ELSE InsertByLength(s[Len(s)], SortByLengthDesc(SubSeq(s, 1, Len(s) - 1)))

\* Array.prototype.map(x => x.name)
Names(objs) == [i \in DOMAIN objs |-> objs[i].name]

\* parseInt(s, 10) / parseFloat(s) on a string of decimal digits.
DigitChars == <<"0", "1", "2", "3", "4", "5", "6", "7", "8", "9">>
DigitSet == Range(DigitChars)
IsDigit(c) == c \in DigitSet
DigitVal(c) == (CHOOSE i \in DOMAIN DigitChars : DigitChars[i] = c) - 1
RECURSIVE ParseInt(_)
ParseInt(s) ==
  IF s = <<>> THEN 0
  ELSE 10 * ParseInt(SubSeq(s, 1, Len(s) - 1)) + DigitVal(s[Len(s)])

(***************************************************************************)
(* Providers: the raw items each external catalog can answer with, and the *)
(* provider's mapping of an item to the Anime model.  Only the fields the  *)
(* unification reads are kept; timestamps (createdAt, updatedAt,           *)
(* lastSyncedAt) are left out of the record.                               *)
(***************************************************************************)

MYANIMELIST == "MYANIMELIST"
ANILIST == "ANILIST"
KITSU == "KITSU"

\* generateId(): one id per mapped item, kept with the item by the
\* provider's cache.
AnimeId(source, externalId) ==
  <<"#">> \o externalId

\* Jikan (the unofficial MyAnimeList mirror): /anime/{id} items.
JikanItems ==
  { [ mal_id |-> <<"1">>, title |-> <<"A">>, title_english |-> Some(<<"E">>),
      title_japanese |-> None, title_synonyms |-> << <<"a">> >>,
      synopsis |-> Some(<<"x", "y">>), score |-> Some(8),
      genres |-> << [name |-> <<"B">>], [name |-> <<"A">>] >>,
      themes |-> << [name |-> <<"T">>] >>,
      studios |-> << [name |-> <<"S">>] >>,
      producers |-> << [name |-> <<"P">>] >>,
      licensors |-> << [name |-> <<"L">>] >> ],
    [ mal_id |-> <<"2">>, title |-> <<"A">>, title_english |-> None,
      title_japanese |-> Some(<<"N">>), title_synonyms |-> <<>>,
      synopsis |-> None, score |-> NoNumber,
      genres |-> << [name |-> <<"a">>], [name |-> <<"B">>] >>,
      themes |-> <<>>,
      studios |-> << [name |-> <<"S">>] >>,
      producers |-> << [name |-> <<"P">>], [name |-> <<"M">>] >>,
      licensors |-> << [name |-> <<"M">>], [name |-> <<"L">>] >> ] }

\* AniList Media items (the studios node is absent in these answers).
AniListItems ==
  { [ id |-> <<"3">>,
      title |-> [romaji |-> None, english |-> Some(<<"E">>), native |-> Some(<<"N">>)],
      averageScore |-> Some(85), description |-> Some(<<"z", "w">>),
      genres |-> << <<"C">>, <<"A">> >>,
      tags |-> << [name |-> <<"U">>, rank |-> 80], [name |-> <<"T">>, rank |-> 70],
                  [name |-> <<"V">>, rank |-> 10] >> ],
    [ id |-> <<"0">>,
      title |-> [romaji |-> Some(<<"A">>), english |-> None, native |-> None],
      averageScore |-> NoNumber, description |-> Some(<<>>),
      genres |-> <<>>, tags |-> <<>> ] }

\* Kitsu anime items.
KitsuItems ==
  { [ id |-> <<"1", "0">>,
      attributes |-> [ titles |-> [en_jp |-> Some(<<"K">>), en |-> None, ja_jp |-> None],
                       canonicalTitle |-> <<"C">>,
                       averageRating |-> Some(<<"3", "2">>),
                       synopsis |-> Some(<<"p", "q", "r">>), description |-> None ] ],
    [ id |-> <<"1", "1">>,
      attributes |-> [ titles |-> [en_jp |-> None, en |-> Some(<<"E">>), ja_jp |-> Some(<<"N">>)],
                       canonicalTitle |-> <<"E">>,
                       averageRating |-> None,
                       synopsis |-> None, description |-> Some(<<"q">>) ] ] }

\* JikanProvider.mapJikanToAnime: always one rating entry, score or not.
mapJikanToAnime(data) ==
  [ id |-> AnimeId(MYANIMELIST, data.mal_id),
    title |-> [ romaji |-> Some(data.title), english |-> data.title_english,
                native |-> data.title_japanese,
                synonyms |-> Some(data.title_synonyms) ],
    synopsis |-> data.synopsis,
    ratings |-> << [source |-> MYANIMELIST, score |-> data.score, den |-> 1] >>,
    genres |-> Names(data.genres),
    themes |-> Names(data.themes),
    studios |-> Names(data.studios),
    producers |-> Names(data.producers),
    licensors |-> Names(data.licensors),
    externalIds |-> << [source |-> MYANIMELIST, id |-> data.mal_id] >> ]

\* AniListProvider.mapAniListToAnime: a rating entry only for a truthy
\* averageScore (0-100, divided by 10); themes are the tags of rank >= 70.
mapAniListToAnime(data) ==
  [ id |-> AnimeId(ANILIST, data.id),
    title |-> [ romaji |-> data.title.romaji, english |-> data.title.english,
                native |-> data.title.native, synonyms |-> None ],
    synopsis |-> data.description,
    ratings |-> IF data.averageScore.some /\ data.averageScore.v # 0
                THEN << [source |-> ANILIST, score |-> data.averageScore, den |-> 10] >>
                ELSE <<>>,
    genres |-> data.genres,
    themes |-> Names(SelectSeq(data.tags, LAMBDA t : t.rank >= 70)),
    studios |-> <<>>,
    producers |-> <<>>,
    licensors |-> <<>>,
    externalIds |-> << [source |-> ANILIST, id |-> data.id] >> ]

\* KitsuProvider.mapKitsuToAnime: a rating entry only for a non-empty
\* averageRating string (parseFloat, divided by 10).
mapKitsuToAnime(data) ==
  [ id |-> AnimeId(KITSU, data.id),
    title |-> [ romaji |-> data.attributes.titles.en_jp,
                english |-> OrElse(data.attributes.titles.en,
                                   Some(data.attributes.canonicalTitle)),
                native |-> data.attributes.titles.ja_jp, synonyms |-> None ],
    synopsis |-> OrElse(data.attributes.synopsis, data.attributes.description),
    ratings |-> IF Truthy(data.attributes.averageRating)
                THEN << [source |-> KITSU,
                         score |-> Some(ParseInt(data.attributes.averageRating.v)),
                         den |-> 10] >>
                ELSE <<>>,
    genres |-> <<>>,
    themes |-> <<>>,
    studios |-> <<>>,
    producers |-> <<>>,
    licensors |-> <<>>,
    externalIds |-> << [source |-> KITSU, id |-> data.id] >> ]

\* The records a provider can return: its mapping over its items.
Catalog(source) ==
  IF source = MYANIMELIST THEN { mapJikanToAnime(d) : d \in JikanItems }
  ELSE IF source = ANILIST THEN { mapAniListToAnime(d) : d \in AniListItems }
  ELSE { mapKitsuToAnime(d) : d \in KitsuItems }

(***************************************************************************)
(* AnimeUnificationService: the field unifier                              *)
(***************************************************************************)

\* A selection that lets a non-empty preferredSources change the pick.
selectBestValue_Preferred(values, preferredSources) ==
  LET defined == SelectSeq(values, LAMBDA o : o.some)
  IN IF Len(defined) = 0 THEN None
     ELSE IF preferredSources # <<>> THEN defined[Len(defined)]
     ELSE defined[1]

\* selectBestValue: the first defined value; _preferredSources is unused.
selectBestValue(values, preferredSources) ==
  LET defined == SelectSeq(values, LAMBDA o : o.some)
  IN IF Len(defined) = 0 THEN None
     ELSE IF Len(defined) = 1 THEN defined[1]
     ELSE defined[1]

\* new Set(): the distinct truthy items in insertion order.
RECURSIVE Distinct(_)
Distinct(s) ==
  IF s = <<>> THEN <<>>
  ELSE LET init == Distinct(SubSeq(s, 1, Len(s) - 1))
           x == s[Len(s)]
       IN IF x = <<>> \/ x \in Range(init) THEN init ELSE Append(init, x)

\* mergeArrayFields: Array.from(merged).sort()
mergeArrayFields(arrays) == SortStrings(Distinct(Flat(arrays)))

\* Destructuring defaults of UnificationOptions.
PreferredSourcesOf(options) ==
  IF options.preferredSources.some THEN options.preferredSources.v ELSE <<>>
MergeArraysOf(options) ==
  IF options.mergeArrays.some THEN options.mergeArrays.v ELSE TRUE

Field(sources, f) == [i \in DOMAIN sources |-> sources[i][f]]
TitleField(sources, f) == [i \in DOMAIN sources |-> sources[i].title[f]]

\* Ratings left as the spread of the base record has them.
unifyRatings_BaseOnly(sources) == sources[1].ratings

\* Ratings without the entries that carry no score.
unifyRatings_ScoredOnly(sources) ==
  SelectSeq(Flat([k \in DOMAIN sources |-> sources[k].ratings]), LAMBDA r : r.score.some)

\* External ids left as the spread of the base record has them.
unifyExternalIds_BaseOnly(sources) == sources[1].externalIds

\* unified.ratings = sources.flatMap((s) => s.ratings)
unifyRatings(sources) == Flat(Field(sources, "ratings"))

\* unified.externalIds = sources.flatMap((s) => s.externalIds)
unifyExternalIds(sources) == Flat(Field(sources, "externalIds"))

\* unifyAnimeData(sources, options), sources non-empty.
unifyAnimeData(sources, options) ==
  LET preferredSources == PreferredSourcesOf(options)
      mergeArrays == MergeArraysOf(options)
      base == sources[1]
      synopses == SelectSeq(Field(sources, "synopsis"), Truthy)
      sorted == SortByLengthDesc([i \in DOMAIN synopses |-> synopses[i].v])
  IN [ id |-> base.id,
       title |->
         [ romaji |-> selectBestValue(TitleField(sources, "romaji"), preferredSources),
           english |-> selectBestValue(TitleField(sources, "english"), preferredSources),
           native |-> selectBestValue(TitleField(sources, "native"), preferredSources),
           synonyms |->
             IF mergeArrays
             THEN Some(mergeArrayFields(
                    [i \in DOMAIN sources |->
                       IF sources[i].title.synonyms.some
                       THEN sources[i].title.synonyms.v ELSE <<>>]))
             ELSE base.title.synonyms ],
       synopsis |-> IF sorted # <<>> /\ sorted[1] # <<>>
                    THEN Some(sorted[1]) ELSE base.synopsis,
       ratings |-> unifyRatings(sources),
       genres |-> IF mergeArrays THEN mergeArrayFields(Field(sources, "genres"))
                  ELSE base.genres,
       themes |-> IF mergeArrays THEN mergeArrayFields(Field(sources, "themes"))
                  ELSE base.themes,
       studios |-> IF mergeArrays THEN mergeArrayFields(Field(sources, "studios"))
                   ELSE base.studios,
       producers |-> IF mergeArrays THEN mergeArrayFields(Field(sources, "producers"))
                     ELSE base.producers,
       licensors |-> base.licensors,
       externalIds |-> unifyExternalIds(sources) ]

(***************************************************************************)
(* NyaaService: the title and magnet-link parsers, the mapping of a Nyaa   *)
(* result to the Torrent model, and the deduplication.  A Torrent keeps    *)
(* the fields the indexing reads; metadata, size, season and dates are     *)
(* left out of the record.                                                 *)
(***************************************************************************)

UpperChars ==
  << "A", "B", "C", "D", "E", "F", "G", "H", "I", "J", "K", "L", "M", "N",
     "O", "P", "Q", "R", "S", "T", "U", "V", "W", "X", "Y", "Z" >>
LowerChars ==
  << "a", "b", "c", "d", "e", "f", "g", "h", "i", "j", "k", "l", "m", "n",
     "o", "p", "q", "r", "s", "t", "u", "v", "w", "x", "y", "z" >>

\* A function over 1..n as the array holding its values.
Array(f) == <<>> \o f

UpperSet == Range(UpperChars)
LowerSet == Range(LowerChars)

\* The lower-case form of each upper-case letter.
LowerOf ==
  [c \in UpperSet |-> LowerChars[CHOOSE j \in DOMAIN UpperChars : UpperChars[j] = c]]

\* String.prototype.toLowerCase
toLowerCase(s) ==
  Array([k \in 1..Len(s) |-> IF s[k] \in UpperSet THEN LowerOf[s[k]] ELSE s[k]])

\* Whether s holds the letters of word from position p on, whatever their
\* case (a literal under the i flag).
HasWordAt(s, p, word) ==
  /\ p + Len(word) - 1 <= Len(s)
  /\ \A j \in DOMAIN word :
       (IF s[p + j - 1] \in UpperSet THEN LowerOf[s[p + j - 1]] ELSE s[p + j - 1])
         = word[j]

\* \s, for the white space the titles carry.
IsSpace(c) == c = " "
\* [a-z0-9]
IsLowerAlnum(c) == IsDigit(c) \/ c \in LowerSet
\* [a-fA-F0-9]
IsHex(c) ==
  \/ IsDigit(c)
  \/ c \in { "a", "b", "c", "d", "e", "f", "A", "B", "C", "D", "E", "F" }

\* The character at position k, or "" past either end.
At(s, k) == IF k \in DOMAIN s THEN s[k] ELSE ""

\* The first position from k on that holds no white space (\s*, greedy).
SkipSpaces(s, k) ==
  CHOOSE j \in k..(Len(s) + 1) :
    /\ ~IsSpace(At(s, j))
    /\ \A m \in k..(j - 1) : IsSpace(At(s, m))

DigitsAt(s, k, n) == \A j \in 0..(n - 1) : IsDigit(At(s, k + j))

\* How many characters \d{2,3} takes at position k when nothing after it
\* makes it give one back: 3, 2, or 0 for no match.
Digits23(s, k) ==
  IF DigitsAt(s, k, 3) THEN 3 ELSE IF DigitsAt(s, k, 2) THEN 2 ELSE 0

\* How many characters \d{1,3} takes at position k.
Digits13(s, k) ==
  IF DigitsAt(s, k, 3) THEN 3
  ELSE IF DigitsAt(s, k, 2) THEN 2
  ELSE IF DigitsAt(s, k, 1) THEN 1 ELSE 0

\* String.prototype.match without the g flag: the capture groups of the
\* match at the leftmost position where the pattern matches, <<>> for null.
\* at[p] holds the groups of the match starting at position p, or <<>>.
Match(at) ==
  LET starts == { p \in DOMAIN at : at[p] # <<>> }
  IN IF starts = {} THEN <<>>
     ELSE at[CHOOSE p \in starts : \A q \in starts : p <= q]

\* /[Ee](\d{2,3})/
PatE(s, p) ==
  IF At(s, p) \in {"E", "e"} /\ Digits23(s, p + 1) > 0
  THEN << SubSeq(s, p + 1, p + Digits23(s, p + 1)) >>
  ELSE <<>>

\* /[Ee]pisode\s*(\d{1,3})/i
PatEpisode(s, p) ==
  LET q == SkipSpaces(s, p + 7)
  IN IF /\ HasWordAt(s, p, <<"e", "p", "i", "s", "o", "d", "e">>)
        /\ Digits13(s, q) > 0
     THEN << SubSeq(s, q, q + Digits13(s, q) - 1) >>
     ELSE <<>>

\* /\s-\s(\d{2,3})\s/
PatDash(s, p) ==
  LET ok(n) == DigitsAt(s, p + 3, n) /\ IsSpace(At(s, p + 3 + n))
  IN IF IsSpace(At(s, p)) /\ At(s, p + 1) = "-" /\ IsSpace(At(s, p + 2))
        /\ (ok(3) \/ ok(2))
     THEN << SubSeq(s, p + 3, p + 2 + (IF ok(3) THEN 3 ELSE 2)) >>
     ELSE <<>>

\* /\s(\d{2,3})\s*\[/
PatBracket(s, p) ==
  LET ok(n) == DigitsAt(s, p + 1, n) /\ At(s, SkipSpaces(s, p + 1 + n)) = "["
  IN IF IsSpace(At(s, p)) /\ (ok(3) \/ ok(2))
     THEN << SubSeq(s, p + 1, p + (IF ok(3) THEN 3 ELSE 2)) >>
     ELSE <<>>

\* NyaaService.extractEpisodeNumber: the first pattern that matches.
extractEpisodeNumber(title) ==
  LET m1 == Match([p \in DOMAIN title |-> PatE(title, p)])
      m2 == Match([p \in DOMAIN title |-> PatEpisode(title, p)])
      m3 == Match([p \in DOMAIN title |-> PatDash(title, p)])
      m4 == Match([p \in DOMAIN title |-> PatBracket(title, p)])
  IN IF m1 # <<>> THEN Some(ParseInt(m1[1]))
     ELSE IF m2 # <<>> THEN Some(ParseInt(m2[1]))
     ELSE IF m3 # <<>> THEN Some(ParseInt(m3[1]))
     ELSE IF m4 # <<>> THEN Some(ParseInt(m4[1]))
     ELSE NoNumber

\* \s*-\s*[Ee]?(\d{2,3}) from position k, the optional letter allowed or
\* not: the second group, or <<>>.
RangeTail(s, k, letter) ==
  LET q == SkipSpaces(s, k)
      r == SkipSpaces(s, q + 1)
      d == IF letter /\ At(s, r) \in {"E", "e"} THEN r + 1 ELSE r
  IN IF At(s, q) = "-" /\ Digits23(s, d) > 0
     THEN SubSeq(s, d, d + Digits23(s, d) - 1)
     ELSE <<>>

\* (\d{2,3}) at position k followed by the tail: three digits are tried
\* before two.
RangeAt(s, k, letter) ==
  LET ok(n) == DigitsAt(s, k, n) /\ RangeTail(s, k + n, letter) # <<>>
      n == IF ok(3) THEN 3 ELSE 2
  IN IF ok(3) \/ ok(2)
     THEN << SubSeq(s, k, k + n - 1), RangeTail(s, k + n, letter) >>
     ELSE <<>>

\* /(\d{2,3})\s*-\s*(\d{2,3})/
PatRange(s, p) == RangeAt(s, p, FALSE)

\* /[Ee](\d{2,3})\s*-\s*[Ee]?(\d{2,3})/
PatERange(s, p) ==
  IF At(s, p) \in {"E", "e"} THEN RangeAt(s, p + 1, TRUE) ELSE <<>>

\* EpisodeRange | undefined
NoRange == [some |-> FALSE, v |-> [start |-> 0, end |-> 0]]

\* NyaaService.extractEpisodeRange: the first pattern that matches.
extractEpisodeRange(title) ==
  LET m1 == Match([p \in DOMAIN title |-> PatRange(title, p)])
      m2 == Match([p \in DOMAIN title |-> PatERange(title, p)])
  IN IF m1 # <<>>
     THEN Some([start |-> ParseInt(m1[1]), end |-> ParseInt(m1[2])])
     ELSE IF m2 # <<>>
     THEN Some([start |-> ParseInt(m2[1]), end |-> ParseInt(m2[2])])
     ELSE NoRange

\* The length of an info hash in hexadecimal digits.
InfoHashLength == 40

\* /btih:([a-fA-F0-9]{40})/i
PatBtih(s, p) ==
  IF /\ HasWordAt(s, p, <<"b", "t", "i", "h", ":">>)
     /\ \A j \in 0..(InfoHashLength - 1) : IsHex(At(s, p + 5 + j))
  THEN << SubSeq(s, p + 5, p + 4 + InfoHashLength) >>
  ELSE <<>>

\* NyaaService.extractInfoHash
extractInfoHash(magnetLink) ==
  LET m == Match([p \in DOMAIN magnetLink |-> PatBtih(magnetLink, p)])
  IN IF m # <<>> THEN toLowerCase(m[1]) ELSE <<>>

\* TorrentQuality
SD_480p == "480p"
HD_720p == "720p"
FULL_HD_1080p == "1080p"
UHD_2160p == "2160p"
UHD_4K == "4K"
RAW == "RAW"
UNKNOWN == "UNKNOWN"

\* String.prototype.includes
includes(s, sub) ==
  \E p \in 1..(Len(s) - Len(sub) + 1) : SubSeq(s, p, p + Len(sub) - 1) = sub

\* NyaaService.extractQuality, on the lower-cased title.
QualityOf(titleLower) ==
  IF includes(titleLower, <<"2", "1", "6", "0", "p">>) \/ includes(titleLower, <<"4", "k">>)
  THEN UHD_4K
  ELSE IF includes(titleLower, <<"1", "0", "8", "0", "p">>) THEN FULL_HD_1080p
  ELSE IF includes(titleLower, <<"7", "2", "0", "p">>) THEN HD_720p
  ELSE IF includes(titleLower, <<"4", "8", "0", "p">>) THEN SD_480p
  ELSE IF includes(titleLower, <<"r", "a", "w">>) THEN RAW
  ELSE UNKNOWN

extractQuality(title) == QualityOf(toLowerCase(title))

\* NyaaService.extractMetadata, the field the queries read.
extractMetadata(title) == [quality |-> extractQuality(title)]

\* [A-Za-z0-9_], what \b tells apart from the rest.
IsWordChar(c) == IsDigit(c) \/ c \in UpperSet \/ c \in LowerSet \/ c = "_"

\* /[Ss](\d{1,2})[Ee]\d{1,3}/
PatSE(s, p) ==
  LET ok(n) == /\ DigitsAt(s, p + 1, n)
               /\ At(s, p + 1 + n) \in {"E", "e"}
               /\ IsDigit(At(s, p + 2 + n))
  IN IF At(s, p) \in {"S", "s"} /\ (ok(2) \/ ok(1))
     THEN << SubSeq(s, p + 1, p + (IF ok(2) THEN 2 ELSE 1)) >>
     ELSE <<>>

\* /Season\s*(\d{1,2})/i
PatSeason(s, p) ==
  LET q == SkipSpaces(s, p + 6)
  IN IF HasWordAt(s, p, <<"s", "e", "a", "s", "o", "n">>) /\ IsDigit(At(s, q))
     THEN << SubSeq(s, q, q + (IF DigitsAt(s, q, 2) THEN 1 ELSE 0)) >>
     ELSE <<>>

\* /[Ss](\d{1,2})\b/
PatS(s, p) ==
  LET ok(n) == DigitsAt(s, p + 1, n) /\ ~IsWordChar(At(s, p + 1 + n))
  IN IF At(s, p) \in {"S", "s"} /\ (ok(2) \/ ok(1))
     THEN << SubSeq(s, p + 1, p + (IF ok(2) THEN 2 ELSE 1)) >>
     ELSE <<>>

\* NyaaService.extractSeasonNumber: the first pattern that matches.
extractSeasonNumber(title) ==
  LET m1 == Match([p \in DOMAIN title |-> PatSE(title, p)])
      m2 == Match([p \in DOMAIN title |-> PatSeason(title, p)])
      m3 == Match([p \in DOMAIN title |-> PatS(title, p)])
  IN IF m1 # <<>> THEN Some(ParseInt(m1[1]))
     ELSE IF m2 # <<>> THEN Some(ParseInt(m2[1]))
     ELSE IF m3 # <<>> THEN Some(ParseInt(m3[1]))
     ELSE NoNumber

\* NyaaService.mapNyaaResultToTorrent up to the torrent it builds: the whole
\* of it for a service built without episode and season repositories (as
\* MiauIndex builds it), where no episode or season is looked up or created.  id stands for the uuid the mapper draws.
mapNyaaResultToTorrent(nyaaResult, anime, episodeNumber, id) ==
  LET episodeRange == extractEpisodeRange(nyaaResult.title)
      extractedEpisode ==
        IF episodeNumber.some THEN episodeNumber
        ELSE extractEpisodeNumber(nyaaResult.title)
  IN [ id |-> id,
       nyaaId |-> nyaaResult.id,
       title |-> nyaaResult.title,
       magnetLink |-> nyaaResult.magnetLink,
       infoHash |-> extractInfoHash(nyaaResult.magnetLink),
       seeders |-> nyaaResult.seeders,
       leechers |-> nyaaResult.leechers,
       downloads |-> nyaaResult.downloads,
       lastChecked |-> FALSE,
       animeId |-> anime.id,
       episodeNumber |-> extractedEpisode,
       episodeRange |-> episodeRange,
       metadata |-> extractMetadata(nyaaResult.title),
       trusted |-> nyaaResult.isTrusted,
       seasonId |-> NoNumber,
       episodeIds |-> <<>> ]

\* results.map(mapNyaaResultToTorrent): the uuids are drawn in array order.
MapResults(nyaaResults, anime, episodeNumber, drawn) ==
  Array([k \in DOMAIN nyaaResults |->
           mapNyaaResultToTorrent(nyaaResults[k], anime, episodeNumber, drawn + k)])

\* NyaaService.isValidTorrent
isValidTorrent(torrent, opts) ==
  IF torrent.seeders < opts.minSeeders THEN FALSE
  ELSE IF opts.trustedOnly /\ ~torrent.trusted THEN FALSE
  ELSE TRUE

\* Array.prototype.filter with isValidTorrent.
RECURSIVE FilterValid(_, _)
FilterValid(ts, opts) ==
  IF ts = <<>> THEN <<>>
  ELSE IF isValidTorrent(Head(ts), opts)
  THEN <<Head(ts)>> \o FilterValid(Tail(ts), opts)
  ELSE FilterValid(Tail(ts), opts)

\* .replace(/[^a-z0-9]+/g, ' '): every run of other characters becomes one
\* space.
RECURSIVE ReplaceNonAlnumRuns(_)
ReplaceNonAlnumRuns(s) ==
  IF s = <<>> THEN <<>>
  ELSE IF IsLowerAlnum(Head(s)) THEN <<Head(s)>> \o ReplaceNonAlnumRuns(Tail(s))
  ELSE IF Len(s) > 1 /\ ~IsLowerAlnum(s[2]) THEN ReplaceNonAlnumRuns(Tail(s))
  ELSE <<" ">> \o ReplaceNonAlnumRuns(Tail(s))

\* .replace(/\s+/g, ' ')
RECURSIVE ReplaceSpaceRuns(_)
ReplaceSpaceRuns(s) ==
  IF s = <<>> THEN <<>>
  ELSE IF ~IsSpace(Head(s)) THEN <<Head(s)>> \o ReplaceSpaceRuns(Tail(s))
  ELSE IF Len(s) > 1 /\ IsSpace(s[2]) THEN ReplaceSpaceRuns(Tail(s))
  ELSE <<" ">> \o ReplaceSpaceRuns(Tail(s))

\* String.prototype.trim
RECURSIVE trim(_)
trim(s) ==
  IF s = <<>> THEN <<>>
  ELSE IF IsSpace(Head(s)) THEN trim(Tail(s))
  ELSE IF IsSpace(s[Len(s)]) THEN trim(SubSeq(s, 1, Len(s) - 1))
  ELSE s

\* normalize in deduplicateTorrents
normalize(s) == ReplaceSpaceRuns(trim(ReplaceNonAlnumRuns(toLowerCase(s))))

\* key = t.infoHash || normalize(t.title)
TorrentKey(t) == IF t.infoHash # <<>> THEN t.infoHash ELSE normalize(t.title)

\* A replacement rule that lets every later torrent of a key take its place.
ReplacesExisting_Always(t, existing) == TRUE

\* if (t.seeders > existing.seeders) map.set(key, t)
ReplacesExisting(t, existing) == t.seeders > existing.seeders

\* One turn of the loop of deduplicateTorrents on the Map m, kept as entries
\* in insertion order: a key keeps the place it was first set at.
DedupStep(m, t, key) ==
  IF \E k \in DOMAIN m : m[k].key = key
  THEN Array([k \in DOMAIN m |->
                IF m[k].key = key /\ ReplacesExisting(t, m[k].value)
                THEN [key |-> key, value |-> t]
                ELSE m[k]])
  ELSE Append(m, [key |-> key, value |-> t])

\* The Map of deduplicateTorrents after its loop.
RECURSIVE DedupMap(_)
DedupMap(ts) ==
  IF ts = <<>> THEN <<>>
  ELSE DedupStep(DedupMap(SubSeq(ts, 1, Len(ts) - 1)), ts[Len(ts)],
                 TorrentKey(ts[Len(ts)]))

\* Stable insertion for sort((a, b) => b.seeders - a.seeders).
RECURSIVE InsertBySeeders(_, _)
InsertBySeeders(x, s) ==
  IF s = <<>> THEN <<x>>
  ELSE IF x.seeders > Head(s).seeders THEN <<x>> \o s
  ELSE <<Head(s)>> \o InsertBySeeders(x, Tail(s))

RECURSIVE SortBySeedersDesc(_)
SortBySeedersDesc(s) ==
  IF s = <<>> THEN <<>>
  ELSE InsertBySeeders(s[Len(s)], SortBySeedersDesc(SubSeq(s, 1, Len(s) - 1)))

\* Array.from(map.values())
MapValues(m) == Array([k \in DOMAIN m |-> m[k].value])

\* NyaaService.deduplicateTorrents
deduplicateTorrents(ts) == SortBySeedersDesc(MapValues(DedupMap(ts)))

\* NyaaService.buildSearchQueries
\* The English title first.
buildSearchQueries_EnglishFirst(anime) ==
  LET q1 == IF Truthy(anime.title.english) THEN << anime.title.english.v >> ELSE <<>>
      q2 == IF Truthy(anime.title.romaji) /\ anime.title.english # anime.title.romaji
            THEN Append(q1, anime.title.romaji.v) ELSE q1
  IN IF Truthy(anime.title.native) /\ anime.title.native.v \notin Range(q2)
     THEN Append(q2, anime.title.native.v) ELSE q2

buildSearchQueries(anime) ==
  LET q1 == IF Truthy(anime.title.romaji) THEN << anime.title.romaji.v >> ELSE <<>>
      q2 == IF Truthy(anime.title.english) /\ anime.title.english # anime.title.romaji
            THEN Append(q1, anime.title.english.v) ELSE q1
  IN IF Truthy(anime.title.native) /\ anime.title.native.v \notin Range(q2)
     THEN Append(q2, anime.title.native.v) ELSE q2

\* isValidEpisodeNumber
MaxEpisodeNumber == 10000
isValidEpisodeNumber(n) == n > 0 /\ n <= MaxEpisodeNumber

\* Number.prototype.toString, for a number that is not negative.
RECURSIVE toString(_)
toString(n) ==
  IF n < 10 THEN << DigitChars[n + 1] >>
  ELSE toString(n \div 10) \o << DigitChars[(n % 10) + 1] >>

\* String.prototype.padStart(2, '0')
padStart(s) ==
  IF Len(s) = 0 THEN <<"0", "0">> ELSE IF Len(s) = 1 THEN <<"0">> \o s ELSE s

\* NyaaService.buildEpisodeQuery
buildEpisodeQuery(anime, episodeNumber) ==
  LET title == IF Truthy(anime.title.romaji) THEN anime.title.romaji.v
               ELSE IF Truthy(anime.title.english) THEN anime.title.english.v
               ELSE <<>>
  IN title \o <<" ">> \o padStart(toString(episodeNumber))

\* The characters sanitizeSearchQuery removes.
DangerousChars == { "<", ">", "'", "\"" }

\* .replace(/[<>'"]/g, '')
RemoveDangerous(s) == SelectSeq(s, LAMBDA c : c \notin DangerousChars)

\* The length sanitizeSearchQuery cuts a query to.
MaxQueryLength == 200

\* String.prototype.substring(0, n)
substring(s, n) == SubSeq(s, 1, IF n < Len(s) THEN n ELSE Len(s))

\* sanitizeSearchQuery
sanitizeSearchQuery(query) ==
  substring(ReplaceSpaceRuns(RemoveDangerous(trim(query))), MaxQueryLength)

\* indexAnime: the sanitized form of every query built for the anime.
SanitizedQueries(anime) ==
  Array([k \in DOMAIN buildSearchQueries(anime) |->
           sanitizeSearchQuery(buildSearchQueries(anime)[k])])

\* InMemoryTorrentRepository.save: Map.set(torrent.id, ...)
saveTorrent(repo, torrent) ==
  IF \E k \in DOMAIN repo : repo[k].id = torrent.id
  THEN Array([k \in DOMAIN repo |->
                IF repo[k].id = torrent.id THEN torrent ELSE repo[k]])
  ELSE Append(repo, torrent)

\* InMemoryTorrentRepository.saveMany
RECURSIVE saveMany(_, _)
saveMany(repo, ts) ==
  IF ts = <<>> THEN repo ELSE saveMany(saveTorrent(repo, Head(ts)), Tail(ts))

\* The episodeNumber filter of findByFilters.
CoversEpisode(t, n) ==
  \/ t.episodeNumber = Some(n)
  \/ /\ t.episodeRange.some
     /\ t.episodeRange.v.start <= n
     /\ t.episodeRange.v.end >= n

\* InMemoryTorrentRepository.findByFilters, for the filters the service
\* passes: animeId, episodeNumber, minSeeders (or undefined), trustedOnly.
findByFilters(repo, filters) ==
  SortBySeedersDesc(
    SelectSeq(repo, LAMBDA t :
      /\ (filters.animeId # <<>> => t.animeId = filters.animeId)
      /\ CoversEpisode(t, filters.episodeNumber)
      /\ (filters.minSeeders.some => t.seeders >= filters.minSeeders.v)
      /\ (filters.trustedOnly => t.trusted)))

\* A choice that returns the best seeded torrent whatever its quality.
getBestTorrentForEpisode_TopSeeded(found, quality) ==
  IF Len(found) = 0 THEN <<>> ELSE << found[1] >>

\* NyaaService.getBestTorrentForEpisode on what findByFilters found:
\* <<>> for null, else the torrent returned.
getBestTorrentForEpisode(found, quality) ==
  LET exactMatch == SelectSeq(found, LAMBDA t : t.metadata.quality = quality)
  IN IF Len(found) = 0 THEN <<>>
     ELSE IF exactMatch # <<>> THEN << exactMatch[1] >>
     ELSE << found[1] >>

\* Quality priority: 4K > 1080p > 720p > 480p
qualityPriority == << UHD_4K, FULL_HD_1080p, HD_720p, SD_480p >>

\* An answer that is the best seeded torrent's quality whatever the tiers.
getBestQualityForEpisode_TopSeeded(found) ==
  IF Len(found) = 0 THEN <<>> ELSE << found[1].metadata.quality >>

\* NyaaService.getBestQualityForEpisode on what findByFilters found:
\* <<>> for null, else the quality returned.
getBestQualityForEpisode(found) ==
  LET tiers == { k \in DOMAIN qualityPriority :
                   \E j \in DOMAIN found : found[j].metadata.quality = qualityPriority[k] }
  IN IF Len(found) = 0 THEN <<>>
     ELSE IF tiers # {}
     THEN << qualityPriority[CHOOSE k \in tiers : \A j \in tiers : k <= j] >>
     ELSE << found[1].metadata.quality >>

\* NyaaService.updateTorrentFromNyaaResult; lastChecked tells whether the
\* date is set.
updateTorrentFromNyaaResult(torrent, nyaaResult) ==
  [torrent EXCEPT !.seeders = nyaaResult.seeders,
                  !.leechers = nyaaResult.leechers,
                  !.downloads = nyaaResult.downloads,
                  !.lastChecked = TRUE]

(***************************************************************************)
(* State                                                                   *)
(***************************************************************************)

VARIABLES
  providers,             \* AnimeUnificationService.providers, in Map order
  animes,                \* InMemoryAnimeRepository.animes, in Map order
  pc,                    \* where the running call is
  externalIds,           \* fetchAndUnify: the request
  options,               \* fetchAndUnify: UnificationOptions
  i,                     \* index of the next external id / provider
  animeDataFromSources,  \* fetchAndUnify: records fetched so far
  fetchLog,              \* what each requested source answered, in order
  limit,                 \* searchAndUnify: limit
  resultsMap,            \* searchAndUnify: groups in Map order
  result,                \* the records the call returned
  threw,                 \* whether the call threw
  animesAtCall,          \* the repository as it was when the call began
  nyaaOptions,           \* NyaaService.options
  torrents,              \* InMemoryTorrentRepository.torrents, in Map order
  uuids,                 \* how many uuids the mapper has drawn
  nyaaPc,                \* how the indexing call ended, "idle" before it
  episodeNumberArg,      \* indexEpisode: the episode number passed
  mappedTorrents,        \* the torrents mapNyaaResultToTorrent produced
  allTorrents,           \* indexAnime: the input of deduplicateTorrents
  indexedTorrents,       \* the torrents the call returned
  nyaaSite,              \* the listings the Nyaa site answers searches with
  repositories,          \* whether episode and season repositories are attached
  failing,               \* the repository whose calls reject: "season", "episode", "none"
  nyaaAnimes,            \* the anime the caller indexes and asks about
  queries,               \* the queries searchNyaa was called with, in order
  best,                  \* what the last getBest... or refresh call was asked and returned
  episodeList,           \* the episode list organizeIntoSeasons was given
  episodes,              \* InMemoryEpisodeRepository.episodes, in Map order
  seasons,               \* InMemorySeasonRepository.seasons, in Map order
  indexing,              \* the indexing call in progress: its arguments and query
  mappers,               \* Promise.all(results.map(...)): each mapper's position
  microtasks,            \* the mappers waiting to resume, in queue order
  nyaaService,           \* MiauIndex.nyaaService: whether the extension is enabled
  facadeCall,            \* the MiauIndex torrent method that threw, and its error
  searchCache,           \* NyaaService.searchCache: the entries, in Map order
  searchMetrics,         \* metrics.totalSearches, cacheHits, cacheMisses
  indexMetrics,          \* metrics.totalTorrentsIndexed, failedSearches
  limiterOptions,        \* RateLimiter.options
  requests,              \* RateLimiter.requests: the records of each key
  now,                   \* Date.now()
  calls,                 \* the execute calls made: key, position, when fn began
  checked                \* what the last checkLimit call by itself answered

unifyVars ==
  << providers, animes, pc, externalIds, options, i, animeDataFromSources,
     fetchLog, limit, resultsMap, result, threw, animesAtCall >>

\* What no call of the service changes: its options and the site.
nyaaConfig ==
  << nyaaOptions, nyaaSite, repositories, nyaaAnimes, nyaaService, failing >>

\* The episode and season repositories and the mappers that fill them.
assocVars == << episodes, seasons, indexing, mappers, microtasks >>

\* The search cache and the metrics of the Nyaa service.
serviceVars == << searchCache, searchMetrics, indexMetrics >>

nyaaVars ==
  << nyaaConfig, torrents, uuids, nyaaPc, episodeNumberArg, mappedTorrents,
     allTorrents, indexedTorrents, assocVars, queries, best, episodeList,
     facadeCall, serviceVars >>

\* The rate limiter, its clock and the execute calls made on it.
limiterVars == << limiterOptions, requests, now, calls, checked >>

vars == << unifyVars, nyaaVars, limiterVars >>

\* Longest external-id list a fetchAndUnify request carries.
MaxExternalIds == 2
\* Largest limit passed to searchAndUnify, and longest answer of a provider.
MaxLimit == 2
\* Longest answer of the Nyaa site to one search.
MaxResults == 2

\* The provider registrations MiauIndex makes: AniList, Kitsu, then the
\* MyAnimeList source when it is configured.
ProviderSetups == { <<ANILIST, KITSU>>, <<ANILIST, KITSU, MYANIMELIST>> }

DefaultOptions == [preferredSources |-> None, mergeArrays |-> NoBoolean]

\* Options a caller passes.
OptionInputs ==
  { [preferredSources |-> ps, mergeArrays |-> ma] :
      ps \in { None, Some(<<KITSU, MYANIMELIST>>) },
      ma \in { NoBoolean, Some(TRUE), Some(FALSE) } }

\* External ids a caller asks for: the ids of the providers' items and one
\* id no catalog knows.
ExternalIdInputs ==
  { [source |-> MYANIMELIST, id |-> d.mal_id] : d \in JikanItems }
  \cup { [source |-> ANILIST, id |-> d.id] : d \in AniListItems }
  \cup { [source |-> KITSU, id |-> d.id] : d \in KitsuItems }
  \cup { [source |-> ANILIST, id |-> <<"9">>] }

SeqsUpTo(S, n) == UNION { [1..k -> S] : k \in 0..n }

(***************************************************************************)
(* InMemoryAnimeRepository                                                 *)
(***************************************************************************)

\* Map.set(anime.id, anime): replaces in place, else appends.
save(repo, anime) ==
  IF \E k \in DOMAIN repo : repo[k].id = anime.id
  THEN [k \in DOMAIN repo |-> IF repo[k].id = anime.id THEN anime ELSE repo[k]]
  ELSE Append(repo, anime)

\* A record an earlier fetchAndUnify stored.
StoredBefore ==
  unifyAnimeData(<< mapKitsuToAnime(CHOOSE d \in KitsuItems : d.id = <<"1", "0">>) >>,
                 DefaultOptions)

\* Required<NyaaServiceOptions>, the fields the indexing reads.
DefaultNyaaOptions ==
  [ minSeeders |-> 1, trustedOnly |-> FALSE, autoIndex |-> TRUE,
    preferredQuality |-> FULL_HD_1080p, enableCache |-> TRUE ]

\* No indexing call is in progress.
NotIndexing == [kind |-> "none"]

\* No getBest... call was made.
NotAsked == [kind |-> "none"]

\* No torrent method of MiauIndex threw.
NotCalled == [op |-> "none", error |-> ""]

\* private metrics = { totalSearches: 0, cacheHits: 0, cacheMisses: 0, ... }
NoSearches == [totalSearches |-> 0, cacheHits |-> 0, cacheMisses |-> 0]

NothingIndexed == [totalTorrentsIndexed |-> 0, failedSearches |-> 0]

\* No rate limiter is in use.
NotChecked == [key |-> "", allowed |-> TRUE]

NoRateLimiter ==
  /\ limiterOptions = [ maxRequests |-> 1, windowMs |-> 2,
                        skipSuccessfulRequests |-> FALSE,
                        skipFailedRequests |-> FALSE ]
  /\ requests = <<>>
  /\ now = 0
  /\ calls = <<>>
  /\ checked = NotChecked

\* A NyaaService is constructed over a torrent repository.
InitNyaaService ==
  /\ facadeCall = NotCalled
  /\ searchCache = <<>>
  /\ searchMetrics = NoSearches
  /\ indexMetrics = NothingIndexed
  /\ episodeList = <<>>
  /\ queries = <<>>
  /\ best = NotAsked
  /\ episodes = <<>>
  /\ seasons = <<>>
  /\ indexing = NotIndexing
  /\ mappers = <<>>
  /\ microtasks = <<>>
  /\ torrents = <<>>
  /\ uuids = 0
  /\ nyaaPc = "idle"
  /\ episodeNumberArg = NoNumber
  /\ mappedTorrents = <<>>
  /\ allTorrents = <<>>
  /\ indexedTorrents = <<>>

Init ==
  /\ providers \in ProviderSetups
  /\ animes \in { <<>>, <<StoredBefore>> }
  /\ pc = "idle"
  /\ externalIds = <<>>
  /\ options = DefaultOptions
  /\ i = 0
  /\ animeDataFromSources = <<>>
  /\ fetchLog = <<>>
  /\ limit = 0
  /\ resultsMap = <<>>
  /\ result = <<>>
  /\ threw = FALSE
  /\ animesAtCall = animes
  /\ nyaaOptions = DefaultNyaaOptions
  /\ nyaaSite = {}
  /\ nyaaService = FALSE
  /\ repositories = FALSE
  /\ failing = "none"
  /\ nyaaAnimes = {}
  /\ InitNyaaService
  /\ NoRateLimiter

(***************************************************************************)
(* fetchAndUnify                                                           *)
(***************************************************************************)

\* Entry: the caller's request.
FetchAndUnifyCall ==
  /\ pc = "idle"
  /\ \E ids \in SeqsUpTo(ExternalIdInputs, MaxExternalIds), opts \in OptionInputs :
       /\ externalIds' = ids
       /\ options' = opts
  /\ pc' = "fetch"
  /\ i' = 1
  /\ animeDataFromSources' = <<>>
  /\ fetchLog' = <<>>
  /\ animesAtCall' = animes
  /\ UNCHANGED << nyaaVars, limiterVars >>
  /\ UNCHANGED << providers, animes, limit, resultsMap, result, threw >>

\* What provider.fetchAnimeById(id) can do: throw, answer null, or answer
\* the mapped item that has this external id.
FetchOutcomes(source, id) ==
  { [kind |-> "throw", anime |-> <<>>], [kind |-> "null", anime |-> <<>>] }
  \cup { [kind |-> "data", anime |-> <<a>>] :
           a \in { r \in Catalog(source) : r.externalIds[1].id = id } }

\* A loop that puts each fetched record in front (unshift for push).
Collect_Unshift(data, o) ==
  IF o.kind = "data" THEN o.anime \o data ELSE data

\* try { anime = await fetchAnimeById(id); if (anime) push } catch { log }
Collect(data, o) ==
  IF o.kind = "data" THEN data \o o.anime ELSE data

\* One iteration of the for loop over externalIds.
FetchNext ==
  /\ pc = "fetch"
  /\ i <= Len(externalIds)
  /\ LET source == externalIds[i].source
         id == externalIds[i].id
     IN IF source \in Range(providers)
        THEN \E o \in FetchOutcomes(source, id) :
               /\ animeDataFromSources' = Collect(animeDataFromSources, o)
               /\ fetchLog' = Append(fetchLog, o)
        ELSE /\ animeDataFromSources' = animeDataFromSources
             /\ fetchLog' = Append(fetchLog, [kind |-> "unregistered", anime |-> <<>>])
  /\ i' = i + 1
  /\ UNCHANGED << nyaaVars, limiterVars >>
  /\ UNCHANGED << providers, animes, pc, externalIds, options, limit,
                  resultsMap, result, threw, animesAtCall >>

\* A tail that returns nothing instead of throwing when no data came.
fetchAndUnifyEnd_NoThrow(data, opts, repo) ==
  IF Len(data) = 0
  THEN [threw |-> FALSE, animes |-> repo, result |-> <<>>]
  ELSE LET unified == unifyAnimeData(data, opts)
       IN [threw |-> FALSE, animes |-> save(repo, unified), result |-> <<unified>>]

\* The tail of fetchAndUnify: throw on no data, else unify, save, return.
fetchAndUnifyEnd(data, opts, repo) ==
  IF Len(data) = 0
  THEN [threw |-> TRUE, animes |-> repo, result |-> <<>>]
  ELSE LET unified == unifyAnimeData(data, opts)
       IN [threw |-> FALSE, animes |-> save(repo, unified), result |-> <<unified>>]

\* After the loop: throw on no data, else unify and save.
FetchFinish ==
  /\ pc = "fetch"
  /\ i > Len(externalIds)
  /\ LET end == fetchAndUnifyEnd(animeDataFromSources, options, animes)
     IN /\ threw' = end.threw
        /\ animes' = end.animes
        /\ result' = end.result
  /\ pc' = "fetched"
  /\ UNCHANGED << nyaaVars, limiterVars >>
  /\ UNCHANGED << providers, externalIds, options, i, animeDataFromSources,
                  fetchLog, limit, resultsMap, animesAtCall >>

(***************************************************************************)
(* searchAndUnify                                                          *)
(***************************************************************************)

\* Entry: searchAndUnify(query, limit).
SearchAndUnifyCall ==
  /\ pc = "idle"
  /\ \E l \in 1..MaxLimit : limit' = l
  /\ pc' = "search"
  /\ i' = 1
  /\ resultsMap' = <<>>
  /\ animesAtCall' = animes
  /\ UNCHANGED << nyaaVars, limiterVars >>
  /\ UNCHANGED << providers, animes, externalIds, options,
                  animeDataFromSources, fetchLog, result, threw >>

\* The sequences without repetition over a set, up to length n.
ListsOf(S, n) ==
  { s \in SeqsUpTo(S, n) : \A a, b \in DOMAIN s : a # b => s[a] # s[b] }

\* const key = anime.title.romaji || anime.title.english || anime.id
GroupKey(anime) ==
  IF Truthy(anime.title.romaji) THEN anime.title.romaji.v
  ELSE IF Truthy(anime.title.english) THEN anime.title.english.v
  ELSE anime.id

\* A grouping that opens a group for every record, whatever its key.
AddToGroup_NewGroup(map, anime) ==
  Append(map, [key |-> GroupKey(anime), group |-> <<anime>>])

\* resultsMap.get(key).push(anime), creating the group at the end of the
\* Map when the key is new.
AddToGroup(map, anime) ==
  LET key == GroupKey(anime)
  IN IF \E k \in DOMAIN map : map[k].key = key
     THEN [k \in DOMAIN map |->
             IF map[k].key = key
             THEN [key |-> key, group |-> Append(map[k].group, anime)]
             ELSE map[k]]
     ELSE Append(map, [key |-> key, group |-> <<anime>>])

RECURSIVE AddAll(_, _)
AddAll(map, results) ==
  IF results = <<>> THEN map
  ELSE AddAll(AddToGroup(map, Head(results)), Tail(results))

\* One iteration of the loop over the providers: the provider's search is
\* awaited; it throws (caught, logged) or answers up to limit records.
SearchNext ==
  /\ pc = "search"
  /\ i <= Len(providers)
  /\ \/ /\ UNCHANGED resultsMap
        /\ fetchLog' = Append(fetchLog, [kind |-> "throw", results |-> <<>>])
     \/ \E results \in ListsOf(Catalog(providers[i]), limit) :
          /\ resultsMap' = AddAll(resultsMap, results)
          /\ fetchLog' = Append(fetchLog, [kind |-> "results", results |-> results])
  /\ i' = i + 1
  /\ UNCHANGED << nyaaVars, limiterVars >>
  /\ UNCHANGED << providers, animes, pc, externalIds, options,
                  animeDataFromSources, limit, result, threw, animesAtCall >>

\* unified.slice(0, limit)
Slice(s, n) == SubSeq(s, 1, IF n < Len(s) THEN n ELSE Len(s))

\* An end of search that stores what it returns, as fetchAndUnify does.
SearchFinish_Saves ==
  /\ pc = "search"
  /\ i > Len(providers)
  /\ LET unified ==
           [k \in DOMAIN resultsMap |->
              unifyAnimeData(resultsMap[k].group,
                             [preferredSources |-> None, mergeArrays |-> Some(TRUE)])]
     IN /\ result' = Slice(unified, limit)
        /\ animes' = IF result' = <<>> THEN animes ELSE save(animes, result'[1])
  /\ pc' = "searched"
  /\ UNCHANGED << nyaaVars, limiterVars >>
  /\ UNCHANGED << providers, externalIds, options, i,
                  animeDataFromSources, fetchLog, limit, resultsMap, threw,
                  animesAtCall >>

\* After the loop: unify every group with mergeArrays: true and truncate.
SearchFinish ==
  /\ pc = "search"
  /\ i > Len(providers)
  /\ LET unified ==
           [k \in DOMAIN resultsMap |->
              unifyAnimeData(resultsMap[k].group,
                             [preferredSources |-> None, mergeArrays |-> Some(TRUE)])]
     IN result' = Slice(unified, limit)
  /\ pc' = "searched"
  /\ UNCHANGED << nyaaVars, limiterVars >>
  /\ UNCHANGED << providers, animes, externalIds, options, i,
                  animeDataFromSources, fetchLog, limit, resultsMap, threw,
                  animesAtCall >>

(***************************************************************************)
(* MiauIndex.searchAnime                                                   *)
(***************************************************************************)

\* Entry: searchAnime(query, limit); every provider's search is started.
SearchAnimeCall ==
  /\ pc = "idle"
  /\ \E l \in 1..MaxLimit : limit' = l
  /\ pc' = "searchAnime"
  /\ i' = 1
  /\ animesAtCall' = animes
  /\ UNCHANGED << nyaaVars, limiterVars >>
  /\ UNCHANGED << providers, animes, externalIds, options,
                  animeDataFromSources, fetchLog, resultsMap, result, threw >>

\* The promise of provider i settles: a failed search is caught and counts
\* as []; Promise.all keeps the answers in provider order, whatever order
\* they arrive in.
SearchAnimeSettles ==
  /\ pc = "searchAnime"
  /\ i <= Len(providers)
  /\ \/ fetchLog' = Append(fetchLog, [kind |-> "throw", results |-> <<>>])
     \/ \E results \in ListsOf(Catalog(providers[i]), limit) :
          fetchLog' = Append(fetchLog, [kind |-> "results", results |-> results])
  /\ i' = i + 1
  /\ UNCHANGED << nyaaVars, limiterVars >>
  /\ UNCHANGED << providers, animes, pc, externalIds, options,
                  animeDataFromSources, limit, resultsMap, result, threw,
                  animesAtCall >>

\* results.flat(): the records the providers answered a search with, in
\* provider-result order.
RawResults(log) == Flat([k \in DOMAIN log |-> log[k].results])

\* The key of MiauIndex.deduplicateAnime: the lower-cased romaji, english or
\* native title, else the id.
DedupKey(item) ==
  IF Truthy(item.title.romaji) THEN toLowerCase(item.title.romaji.v)
  ELSE IF Truthy(item.title.english) THEN toLowerCase(item.title.english.v)
  ELSE IF Truthy(item.title.native) THEN toLowerCase(item.title.native.v)
  ELSE item.id

\* MiauIndex.deduplicateAnime: the first record of every key, in Map order.
RECURSIVE deduplicateAnime(_)
deduplicateAnime(anime) ==
  IF anime = <<>> THEN <<>>
  ELSE LET seen == deduplicateAnime(SubSeq(anime, 1, Len(anime) - 1))
           item == anime[Len(anime)]
       IN IF \E k \in DOMAIN seen : DedupKey(seen[k]) = DedupKey(item)
          THEN seen
          ELSE Append(seen, item)

\* After Promise.all: flatten, deduplicate, truncate.
SearchAnimeFinish ==
  /\ pc = "searchAnime"
  /\ i > Len(providers)
  /\ result' = Slice(deduplicateAnime(RawResults(fetchLog)), limit)
  /\ pc' = "animeSearched"
  /\ UNCHANGED << nyaaVars, limiterVars >>
  /\ UNCHANGED << providers, animes, externalIds, options, i,
                  animeDataFromSources, fetchLog, limit, resultsMap, threw,
                  animesAtCall >>

Next ==
  \/ FetchAndUnifyCall
  \/ FetchNext
  \/ FetchFinish
  \/ SearchAndUnifyCall
  \/ SearchNext
  \/ SearchFinish
  \/ SearchAnimeCall
  \/ SearchAnimeSettles
  \/ SearchAnimeFinish

Spec == Init /\ [][Next]_vars

(***************************************************************************)
(* NyaaService.indexAnime and indexEpisode                                 *)
(***************************************************************************)

\* n copies of character c.
Repeat(c, n) == Array([k \in 1..n |-> c])

MagnetPrefix ==
  << "m", "a", "g", "n", "e", "t", ":", "?", "x", "t", "=", "u", "r", "n",
     ":", "b", "t", "i", "h", ":" >>

\* The results the Nyaa site can answer a search with: a batch release with
\* an info hash, and two listings whose magnet links give no info hash
\* (none, and a truncated one) and whose titles differ in case, spacing and
\* punctuation only.
NyaaResults ==
  { [ id |-> <<"1">>,
      title |-> <<"a", " ", "0", "1", "-", "1", "2">>,
      magnetLink |-> MagnetPrefix \o Repeat("A", InfoHashLength) \o <<"&">>,
      seeders |-> 10, leechers |-> 5, downloads |-> 100, isTrusted |-> TRUE ],
    [ id |-> <<"2">>,
      title |-> <<"A", " ", "E", "0", "1", "-", "E", "1", "2">>,
      magnetLink |-> <<>>,
      seeders |-> 5, leechers |-> 2, downloads |-> 50, isTrusted |-> TRUE ],
    [ id |-> <<"3">>,
      title |-> <<"a", ".", "e", "0", "1", ".", ".", "e", "1", "2", " ">>,
      magnetLink |-> MagnetPrefix \o Repeat("b", InfoHashLength - 1),
      seeders |-> 9, leechers |-> 4, downloads |-> 90, isTrusted |-> FALSE ] }

\* The anime torrents are indexed for: one with a romaji title only, one
\* with a romaji and an English title.
NyaaAnimes ==
  { mapAniListToAnime(CHOOSE d \in AniListItems : d.id = <<"0">>),
    mapKitsuToAnime(CHOOSE d \in KitsuItems : d.id = <<"1", "0">>) }

NyaaOptionInputs ==
  { DefaultNyaaOptions,
    [DefaultNyaaOptions EXCEPT !.trustedOnly = TRUE],
    [DefaultNyaaOptions EXCEPT !.minSeeders = 6, !.autoIndex = FALSE] }

\* Episode numbers a caller passes to indexEpisode.
EpisodeNumberInputs == { 0, 1, 5 }

\* The answers of the Nyaa site to a list of n queries.
SearchAnswers(n) == [1..n -> SeqsUpTo(nyaaSite, MaxResults)]

\* searchCache.get(query) finds an entry.
CacheHit(cache, query) == \E k \in DOMAIN cache : cache[k].key = query

\* searchCache.get(query)
CacheGet(cache, query) == cache[CHOOSE k \in DOMAIN cache : cache[k].key = query].data

\* searchCache.set(query, result): Map.set.
CacheSet(cache, query, data) ==
  IF CacheHit(cache, query)
  THEN Array([k \in DOMAIN cache |->
                IF cache[k].key = query THEN [key |-> query, data |-> data]
                ELSE cache[k]])
  ELSE Append(cache, [key |-> query, data |-> data])

\* searchNyaa's counters after one more search: a hit, or a miss when there
\* is a cache.
\* A search answered from the cache is not counted as a search.
CountSearch_HitUncounted(m, hit) ==
  [ totalSearches |-> m.totalSearches + (IF hit THEN 0 ELSE 1),
    cacheHits |-> m.cacheHits + (IF hit THEN 1 ELSE 0),
    cacheMisses |-> m.cacheMisses +
                    (IF nyaaOptions.enableCache /\ ~hit THEN 1 ELSE 0) ]

CountSearch(m, hit) ==
  [ totalSearches |-> m.totalSearches + 1,
    cacheHits |-> m.cacheHits + (IF hit THEN 1 ELSE 0),
    cacheMisses |-> m.cacheMisses +
                    (IF nyaaOptions.enableCache /\ ~hit THEN 1 ELSE 0) ]

\* searchNyaa(query) when the site, if asked, answers with answer: the
\* cached results on a hit, else the answer, which is cached.
searchNyaa(s, query, answer) ==
  IF CacheHit(s.cache, query)
  THEN [ cache |-> s.cache,
         metrics |-> CountSearch(s.metrics, TRUE),
         results |-> Append(s.results, CacheGet(s.cache, query)) ]
  ELSE [ cache |-> IF nyaaOptions.enableCache
                   THEN CacheSet(s.cache, query, answer) ELSE s.cache,
         metrics |-> CountSearch(s.metrics, FALSE),
         results |-> Append(s.results, answer) ]

\* searchNyaa(query) when the site fails: counted as a search and a miss,
\* nothing cached.
searchNyaaFails(s) == [s EXCEPT !.metrics = CountSearch(@, FALSE)]

\* The cache, the counters and the results after the first n queries were
\* searched for in order.
RECURSIVE SearchAll(_, _, _)
SearchAll(searchQueries, answers, n) ==
  IF n = 0
  THEN [cache |-> searchCache, metrics |-> searchMetrics, results |-> <<>>]
  ELSE searchNyaa(SearchAll(searchQueries, answers, n - 1),
                  searchQueries[n], answers[n])

\* What the searches leave in the service.
Searched(s) ==
  /\ searchCache' = s.cache
  /\ searchMetrics' = s.metrics

\* this.metrics.totalTorrentsIndexed += length, when the torrents are saved.
CountIndexed(saved) ==
  IF nyaaOptions.autoIndex /\ Len(saved) > 0
  THEN [indexMetrics EXCEPT !.totalTorrentsIndexed = @ + Len(saved)]
  ELSE indexMetrics

\* catch (error) { this.metrics.failedSearches++; ... }
CountFailed == [indexMetrics EXCEPT !.failedSearches = @ + 1]

\* allTorrents.push(...): the torrents mapped from one more answer.
PushMapped(before, nyaaResults, anime, drawn) ==
  before \o MapResults(nyaaResults, anime, NoNumber, drawn + Len(before))

\* The torrents mapped from the answers to the first n queries, in order.
RECURSIVE MapAnswers(_, _, _, _)
MapAnswers(answers, n, anime, drawn) ==
  IF n = 0 THEN <<>>
  ELSE PushMapped(MapAnswers(answers, n - 1, anime, drawn), answers[n], anime, drawn)

\* The end of indexAnime: filter, deduplicate, save.
IndexAnimeValid(mapped, valid, uniqueTorrents) ==
  /\ mappedTorrents' = mapped
  /\ allTorrents' = valid
  /\ indexedTorrents' = uniqueTorrents
  /\ uuids' = uuids + Len(mapped)
  /\ torrents' = IF nyaaOptions.autoIndex /\ Len(uniqueTorrents) > 0
                 THEN saveMany(torrents, uniqueTorrents)
                 ELSE torrents
  /\ indexMetrics' = CountIndexed(uniqueTorrents)

IndexAnimeFiltered(mapped, valid) ==
  IndexAnimeValid(mapped, valid, deduplicateTorrents(valid))

IndexAnimeMapped(mapped) ==
  IndexAnimeFiltered(mapped, FilterValid(mapped, nyaaOptions))

\* The end of indexEpisode: filter, save.
IndexEpisodeFiltered(mapped, valid) ==
  /\ mappedTorrents' = mapped
  /\ indexedTorrents' = valid
  /\ uuids' = uuids + Len(mapped)
  /\ torrents' = IF nyaaOptions.autoIndex /\ Len(valid) > 0
                 THEN saveMany(torrents, valid)
                 ELSE torrents
  /\ indexMetrics' = CountIndexed(valid)

IndexEpisodeMapped(mapped) ==
  IndexEpisodeFiltered(mapped, FilterValid(mapped, nyaaOptions))

\* indexAnime after its searches: the results are mapped.
IndexAnimeSearched(s, anime) ==
  /\ Searched(s)
  /\ IndexAnimeMapped(MapAnswers(s.results, Len(s.results), anime, uuids))

\* indexEpisode after its search: the results are mapped.
IndexEpisodeSearched(s, anime, episodeNumber) ==
  /\ Searched(s)
  /\ IndexEpisodeMapped(MapResults(s.results[1], anime, Some(episodeNumber), uuids))

\* indexAnime when the search after those of s fails: nothing is cached
\* for it.
IndexAnimeFailed(s, anime) ==
  /\ Searched(searchNyaaFails(s))
  /\ mappedTorrents' = MapAnswers(s.results, Len(s.results), anime, uuids)
  /\ uuids' = uuids + Len(mappedTorrents')
  /\ indexMetrics' = CountFailed

\* indexAnime(anime) when every search succeeds.
IndexAnime ==
  /\ nyaaPc = "idle"
  /\ ~repositories
  /\ \E anime \in nyaaAnimes :
       /\ queries' = queries \o SanitizedQueries(anime)
       /\ \E answers \in SearchAnswers(Len(buildSearchQueries(anime))) :
            IndexAnimeSearched(
              SearchAll(SanitizedQueries(anime), answers,
                        Len(buildSearchQueries(anime))),
              anime)
  /\ nyaaPc' = "indexedAnime"
  /\ UNCHANGED << nyaaConfig, facadeCall, episodeList, best, episodeNumberArg, assocVars >>
  /\ UNCHANGED << unifyVars, limiterVars >>

\* indexAnime(anime) when the search of query k fails: the torrents of the
\* earlier queries were mapped, nothing is saved, ProviderError is thrown.
IndexAnimeFails ==
  /\ nyaaPc = "idle"
  /\ ~repositories
  /\ \E anime \in nyaaAnimes :
       \E k \in 1..Len(buildSearchQueries(anime)) :
         /\ queries' = queries \o SubSeq(SanitizedQueries(anime), 1, k)
         /\ \E answers \in SearchAnswers(k - 1) :
              /\ ~CacheHit(SearchAll(SanitizedQueries(anime), answers, k - 1).cache,
                           SanitizedQueries(anime)[k])
              /\ IndexAnimeFailed(SearchAll(SanitizedQueries(anime), answers, k - 1),
                                  anime)
  /\ nyaaPc' = "threw"
  /\ UNCHANGED << nyaaConfig, facadeCall, episodeList, best, torrents, episodeNumberArg, allTorrents,
                  indexedTorrents, assocVars >>
  /\ UNCHANGED << unifyVars, limiterVars >>

\* indexEpisode(anime, episodeNumber) when the search succeeds.
IndexEpisode ==
  /\ nyaaPc = "idle"
  /\ ~repositories
  /\ \E anime \in nyaaAnimes, episodeNumber \in EpisodeNumberInputs :
       /\ isValidEpisodeNumber(episodeNumber)
       /\ episodeNumberArg' = Some(episodeNumber)
       /\ queries' = Append(queries,
                            sanitizeSearchQuery(buildEpisodeQuery(anime, episodeNumber)))
       /\ \E answers \in SearchAnswers(1) :
            IndexEpisodeSearched(
              SearchAll(<< sanitizeSearchQuery(buildEpisodeQuery(anime, episodeNumber)) >>,
                        answers, 1),
              anime, episodeNumber)
  /\ nyaaPc' = "indexedEpisode"
  /\ UNCHANGED << nyaaConfig, facadeCall, episodeList, best, allTorrents, assocVars >>
  /\ UNCHANGED << unifyVars, limiterVars >>

\* indexEpisode with an invalid episode number, or when the search fails:
\* the call throws and nothing is mapped or saved.
IndexEpisodeFails ==
  /\ nyaaPc = "idle"
  /\ \E anime \in nyaaAnimes, episodeNumber \in EpisodeNumberInputs :
       /\ episodeNumberArg' = Some(episodeNumber)
       /\ IF isValidEpisodeNumber(episodeNumber)
          THEN /\ ~CacheHit(searchCache,
                            sanitizeSearchQuery(buildEpisodeQuery(anime, episodeNumber)))
               /\ queries' = Append(queries,
                                    sanitizeSearchQuery(
                                      buildEpisodeQuery(anime, episodeNumber)))
               /\ Searched(searchNyaaFails(SearchAll(<<>>, <<>>, 0)))
               /\ indexMetrics' = CountFailed
          ELSE UNCHANGED << queries, serviceVars >>
  /\ nyaaPc' = "threw"
  /\ UNCHANGED << nyaaConfig, facadeCall, episodeList, best, torrents, uuids, mappedTorrents, allTorrents,
                  indexedTorrents, assocVars >>
  /\ UNCHANGED << unifyVars, limiterVars >>

InitNyaa ==
  /\ providers = <<ANILIST, KITSU>>
  /\ animes = <<>>
  /\ pc = "idle"
  /\ externalIds = <<>>
  /\ options = DefaultOptions
  /\ i = 0
  /\ animeDataFromSources = <<>>
  /\ fetchLog = <<>>
  /\ limit = 0
  /\ resultsMap = <<>>
  /\ result = <<>>
  /\ threw = FALSE
  /\ animesAtCall = animes
  /\ nyaaOptions \in NyaaOptionInputs
  /\ nyaaSite = NyaaResults
  /\ nyaaService = TRUE
  /\ repositories = FALSE
  /\ failing = "none"
  /\ nyaaAnimes = NyaaAnimes
  /\ InitNyaaService
  /\ NoRateLimiter

NextNyaa ==
  \/ IndexAnime
  \/ IndexAnimeFails
  \/ IndexEpisode
  \/ IndexEpisodeFails

SpecNyaa == InitNyaa /\ [][NextNyaa]_vars

(***************************************************************************)
(* Indexing a site that lists batch releases                               *)
(***************************************************************************)

\* Listings of batch and single-episode releases: a batch whose title gives
\* its range backwards, a 720p batch, and a 1080p and a 4K release of
\* episode 5.
BatchResults ==
  { [ id |-> <<"4">>,
      title |-> <<"a", " ", "1", "2", "-", "0", "1">>,
      magnetLink |-> <<>>,
      seeders |-> 7, leechers |-> 3, downloads |-> 70, isTrusted |-> FALSE ],
    [ id |-> <<"5">>,
      title |-> <<"a", " ", "0", "1", "-", "1", "2", " ", "7", "2", "0", "p">>,
      magnetLink |-> <<>>,
      seeders |-> 10, leechers |-> 5, downloads |-> 100, isTrusted |-> TRUE ],
    [ id |-> <<"6">>,
      title |-> <<"a", " ", "e", "0", "5", " ", "1", "0", "8", "0", "p">>,
      magnetLink |-> <<>>,
      seeders |-> 5, leechers |-> 2, downloads |-> 50, isTrusted |-> TRUE ],
    [ id |-> <<"1", "0">>,
      title |-> <<"a", " ", "e", "0", "5", " ", "4", "K">>,
      magnetLink |-> <<>>,
      seeders |-> 6, leechers |-> 3, downloads |-> 60, isTrusted |-> FALSE ] }

\* The anime indexed at that site: one whose title opens with a quotation
\* mark and a space, and one with a plain title.
BatchAnimes ==
  LET plain == CHOOSE d \in AniListItems : d.id = <<"0">>
  IN { mapAniListToAnime(plain),
       mapAniListToAnime(
         [plain EXCEPT !.id = <<"9">>,
                       !.title.romaji = Some(<<"\"", " ", "a", "\"">>)]) }

BatchOptionInputs ==
  { DefaultNyaaOptions,
    [DefaultNyaaOptions EXCEPT !.minSeeders = 6, !.trustedOnly = TRUE] }

InitBatch ==
  /\ providers = <<ANILIST, KITSU>>
  /\ animes = <<>>
  /\ pc = "idle"
  /\ externalIds = <<>>
  /\ options = DefaultOptions
  /\ i = 0
  /\ animeDataFromSources = <<>>
  /\ fetchLog = <<>>
  /\ limit = 0
  /\ resultsMap = <<>>
  /\ result = <<>>
  /\ threw = FALSE
  /\ animesAtCall = animes
  /\ nyaaOptions \in BatchOptionInputs
  /\ nyaaSite = BatchResults
  /\ nyaaService = TRUE
  /\ repositories = FALSE
  /\ failing = "none"
  /\ nyaaAnimes = BatchAnimes
  /\ InitNyaaService
  /\ NoRateLimiter

\* Where a caller can refresh torrents: before or after an indexing call.
Refreshable == {"idle", "indexedAnime", "indexedEpisode"}

\* What refreshTorrent was asked: a torrent id, and whether the repository
\* held it (null is returned when not, else the torrent as stored now).
RefreshReturned(id, found) == [kind |-> "refresh", id |-> id, found |-> found]

\* refreshTorrent after its search: with no result the torrent is returned
\* as it is, else it is updated from the first result and saved.
RefreshSearched(s, torrent) ==
  /\ Searched(s)
  /\ torrents' = IF Len(s.results[1]) = 0 THEN torrents
                 ELSE saveTorrent(torrents,
                        updateTorrentFromNyaaResult(torrent, s.results[1][1]))
  /\ best' = RefreshReturned(torrent.id, TRUE)

\* refreshTorrent(torrentId) for the id of a stored torrent: the torrent's
\* nyaaId is searched for.
RefreshTorrent ==
  /\ nyaaPc \in Refreshable
  /\ \E k \in DOMAIN torrents, nyaaResults \in SeqsUpTo(nyaaSite, MaxResults) :
       /\ queries' = Append(queries, torrents[k].nyaaId)
       /\ RefreshSearched(searchNyaa(SearchAll(<<>>, <<>>, 0), torrents[k].nyaaId,
                                     nyaaResults),
                          torrents[k])
  /\ nyaaPc' = "refreshed"
  /\ UNCHANGED << nyaaConfig, facadeCall, episodeList, uuids, episodeNumberArg,
                  mappedTorrents, allTorrents, indexedTorrents, assocVars,
                  indexMetrics >>
  /\ UNCHANGED << unifyVars, limiterVars >>

\* refreshTorrent(torrentId) when the search fails: the error is caught and
\* the torrent is returned as it is.
RefreshTorrentFails ==
  /\ nyaaPc \in Refreshable
  /\ \E k \in DOMAIN torrents :
       /\ ~CacheHit(searchCache, torrents[k].nyaaId)
       /\ queries' = Append(queries, torrents[k].nyaaId)
       /\ best' = RefreshReturned(torrents[k].id, TRUE)
  /\ Searched(searchNyaaFails(SearchAll(<<>>, <<>>, 0)))
  /\ nyaaPc' = "refreshed"
  /\ UNCHANGED << nyaaConfig, facadeCall, episodeList, torrents, uuids,
                  episodeNumberArg, mappedTorrents, allTorrents, indexedTorrents,
                  assocVars, indexMetrics >>
  /\ UNCHANGED << unifyVars, limiterVars >>

\* refreshTorrent(torrentId) for an id the repository does not hold (0 is
\* no uuid the mapper draws): null is returned and nothing is searched for.
RefreshUnknownTorrent ==
  /\ nyaaPc \in Refreshable
  /\ best' = RefreshReturned(0, FALSE)
  /\ nyaaPc' = "refreshed"
  /\ UNCHANGED << nyaaConfig, facadeCall, episodeList, queries, torrents, uuids,
                  episodeNumberArg, mappedTorrents, allTorrents, indexedTorrents,
                  assocVars, serviceVars >>
  /\ UNCHANGED << unifyVars, limiterVars >>

\* The qualities a caller asks getBestTorrentForEpisode for, or none.
QualityInputs == { None, Some(HD_720p), Some(SD_480p) }

\* getBestTorrentForEpisode(anime, episodeNumber, preferredQuality)
GetBestTorrentForEpisode ==
  /\ nyaaPc # "asked"
  /\ \E anime \in nyaaAnimes, episodeNumber \in EpisodeNumberInputs,
        preferredQuality \in QualityInputs :
       best' = [ kind |-> "torrent", animeId |-> anime.id,
                 episodeNumber |-> episodeNumber, quality |-> preferredQuality,
                 value |->
                   getBestTorrentForEpisode(
                     findByFilters(torrents,
                                   [ animeId |-> anime.id,
                                     episodeNumber |-> episodeNumber,
                                     minSeeders |-> Some(nyaaOptions.minSeeders),
                                     trustedOnly |-> nyaaOptions.trustedOnly ]),
                     IF preferredQuality.some THEN preferredQuality.v
                     ELSE nyaaOptions.preferredQuality) ]
  /\ nyaaPc' = "asked"
  /\ UNCHANGED << nyaaConfig, facadeCall, serviceVars, episodeList, queries, torrents, uuids, episodeNumberArg,
                  mappedTorrents, allTorrents, indexedTorrents, assocVars >>
  /\ UNCHANGED << unifyVars, limiterVars >>

\* getBestQualityForEpisode(animeId, episodeNumber)
GetBestQualityForEpisode ==
  /\ nyaaPc # "asked"
  /\ \E anime \in nyaaAnimes, episodeNumber \in EpisodeNumberInputs :
       best' = [ kind |-> "quality", animeId |-> anime.id,
                 episodeNumber |-> episodeNumber, quality |-> None,
                 value |->
                   getBestQualityForEpisode(
                     findByFilters(torrents,
                                   [ animeId |-> anime.id,
                                     episodeNumber |-> episodeNumber,
                                     minSeeders |-> NoNumber,
                                     trustedOnly |-> FALSE ])) ]
  /\ nyaaPc' = "asked"
  /\ UNCHANGED << nyaaConfig, facadeCall, serviceVars, episodeList, queries, torrents, uuids, episodeNumberArg,
                  mappedTorrents, allTorrents, indexedTorrents, assocVars >>
  /\ UNCHANGED << unifyVars, limiterVars >>

NextBatch ==
  \/ IndexAnime
  \/ IndexAnimeFails
  \/ IndexEpisode
  \/ IndexEpisodeFails
  \/ GetBestTorrentForEpisode
  \/ GetBestQualityForEpisode

SpecBatch == InitBatch /\ [][NextBatch]_vars

(***************************************************************************)
(* Indexing with episode and season repositories attached                  *)
(***************************************************************************)

\* Episode | null, AnimeSeason | null: the id of the record found.
\* InMemoryEpisodeRepository.findByNumber
findByNumber(repo, animeId, number) ==
  LET found == { k \in DOMAIN repo :
                   repo[k].animeId = animeId /\ repo[k].number = number }
  IN IF found = {} THEN NoNumber
     ELSE Some(repo[CHOOSE k \in found : \A j \in found : k <= j].id)

\* InMemorySeasonRepository.findBySeasonNumber
findBySeasonNumber(repo, animeId, seasonNumber) ==
  LET found == { k \in DOMAIN repo :
                   repo[k].animeId = animeId /\ repo[k].seasonNumber = seasonNumber }
  IN IF found = {} THEN NoNumber
     ELSE Some(repo[CHOOSE k \in found : \A j \in found : k <= j].id)

\* InMemoryEpisodeRepository.save and InMemorySeasonRepository.save:
\* Map.set(record.id, record).
saveRecord(repo, record) ==
  IF \E k \in DOMAIN repo : repo[k].id = record.id
  THEN Array([k \in DOMAIN repo |->
                IF repo[k].id = record.id THEN record ELSE repo[k]])
  ELSE Append(repo, record)

\* extractedSeason && ..., extractedEpisode && ...: a number that is
\* defined and not 0.
TruthyNumber(o) == o.some /\ o.v # 0

\* The mapper from "if (extractedEpisode && this.episodeRepository)" on:
\* it calls findByNumber and awaits, or returns the torrent.
EpisodePart(m, animeId) ==
  IF TruthyNumber(m.torrent.episodeNumber)
  THEN [m EXCEPT !.pc = "findEpisode",
                 !.found = findByNumber(episodes, animeId, m.torrent.episodeNumber.v)]
  ELSE [m EXCEPT !.pc = "done"]

\* The mapper from "if (extractedSeason && this.seasonRepository)" on.
SeasonPart(m, animeId) ==
  IF TruthyNumber(m.season)
  THEN [m EXCEPT !.pc = "findSeason",
                 !.found = findBySeasonNumber(seasons, animeId, m.season.v)]
  ELSE EpisodePart(m, animeId)

\* mapNyaaResultToTorrent run to its first await.
StartMapper(nyaaResult, anime, episodeNumber, id) ==
  SeasonPart([ pc |-> "start",
               torrent |-> mapNyaaResultToTorrent(nyaaResult, anime, episodeNumber, id),
               season |-> extractSeasonNumber(nyaaResult.title),
               found |-> NoNumber,
               caught |-> {} ],
             anime.id)

\* results.map(async ...): every mapper runs to its first await before the
\* call goes on.
StartMappers(nyaaResults, anime, episodeNumber, drawn) ==
  Array([k \in DOMAIN nyaaResults |->
           StartMapper(nyaaResults[k], anime, episodeNumber, drawn + k)])

\* The mappers that wait on a promise, in the order they began to wait.
RECURSIVE Waiting(_, _)
Waiting(ms, k) ==
  IF k > Len(ms) THEN <<>>
  ELSE IF ms[k].pc = "done" THEN Waiting(ms, k + 1)
  ELSE <<k>> \o Waiting(ms, k + 1)

\* The listings of a site that names seasons and episodes: two releases of
\* episode 5 of season 1, and one of episode 6 that names no season.
AssocResults ==
  { [ id |-> <<"7">>,
      title |-> <<"a", " ", "S", "0", "1", "E", "0", "5">>,
      magnetLink |-> <<>>,
      seeders |-> 10, leechers |-> 5, downloads |-> 100, isTrusted |-> TRUE ],
    [ id |-> <<"8">>,
      title |-> <<"A", " ", "s", "1", "e", "0", "5">>,
      magnetLink |-> <<>>,
      seeders |-> 5, leechers |-> 2, downloads |-> 50, isTrusted |-> TRUE ],
    [ id |-> <<"9">>,
      title |-> <<"a", " ", "e", "0", "6">>,
      magnetLink |-> <<>>,
      seeders |-> 9, leechers |-> 4, downloads |-> 90, isTrusted |-> FALSE ] }

\* indexAnime(anime) begins: the queries are built.
BeginIndexAnime ==
  /\ nyaaPc = "idle"
  /\ repositories
  /\ \E anime \in nyaaAnimes :
       indexing' = [ kind |-> "indexAnime", anime |-> anime, k |-> 1,
                     n |-> Len(buildSearchQueries(anime)) ]
  /\ nyaaPc' = "searching"
  /\ UNCHANGED << nyaaConfig, facadeCall, serviceVars, episodeList, best, queries, torrents, uuids, episodeNumberArg,
                  mappedTorrents, allTorrents, indexedTorrents, episodes, seasons,
                  mappers, microtasks >>
  /\ UNCHANGED << unifyVars, limiterVars >>

\* indexEpisode(anime, episodeNumber) begins with a valid episode number.
BeginIndexEpisode ==
  /\ nyaaPc = "idle"
  /\ repositories
  /\ \E anime \in nyaaAnimes, episodeNumber \in EpisodeNumberInputs :
       /\ isValidEpisodeNumber(episodeNumber)
       /\ episodeNumberArg' = Some(episodeNumber)
       /\ indexing' = [kind |-> "indexEpisode", anime |-> anime, k |-> 1, n |-> 1]
  /\ nyaaPc' = "searching"
  /\ UNCHANGED << nyaaConfig, facadeCall, serviceVars, episodeList, best, queries, torrents, uuids, mappedTorrents,
                  allTorrents, indexedTorrents, episodes, seasons, mappers,
                  microtasks >>
  /\ UNCHANGED << unifyVars, limiterVars >>

\* The query the call in progress passes to searchNyaa.
CurrentQuery ==
  IF indexing.kind = "indexEpisode"
  THEN sanitizeSearchQuery(buildEpisodeQuery(indexing.anime, episodeNumberArg.v))
  ELSE SanitizedQueries(indexing.anime)[indexing.k]

\* results.map(async ...) on what searchNyaa returned.
MappersStarted(s) ==
  /\ Searched(s)
  /\ mappers' = StartMappers(s.results[1], indexing.anime,
                             IF indexing.kind = "indexEpisode"
                             THEN episodeNumberArg ELSE NoNumber,
                             uuids)
  /\ uuids' = uuids + Len(s.results[1])

\* await this.searchNyaa(query) returns: results.map starts the mappers.
SearchReturns ==
  /\ nyaaPc = "searching"
  /\ \E nyaaResults \in SeqsUpTo(nyaaSite, MaxResults) :
       MappersStarted(searchNyaa(SearchAll(<<>>, <<>>, 0), CurrentQuery, nyaaResults))
  /\ microtasks' = Waiting(mappers', 1)
  /\ queries' = Append(queries, CurrentQuery)
  /\ nyaaPc' = "mapping"
  /\ UNCHANGED << nyaaConfig, facadeCall, episodeList, best, torrents, episodeNumberArg, mappedTorrents,
                  allTorrents, indexedTorrents, episodes, seasons, indexing,
                  indexMetrics >>
  /\ UNCHANGED << unifyVars, limiterVars >>

\* await this.searchNyaa(query) throws: the call throws ProviderError.
SearchThrows ==
  /\ nyaaPc = "searching"
  /\ ~CacheHit(searchCache, CurrentQuery)
  /\ Searched(searchNyaaFails(SearchAll(<<>>, <<>>, 0)))
  /\ indexMetrics' = CountFailed
  /\ nyaaPc' = "threw"
  /\ indexing' = NotIndexing
  /\ queries' = Append(queries, CurrentQuery)
  /\ UNCHANGED << nyaaConfig, facadeCall, episodeList, best, torrents, uuids, episodeNumberArg, mappedTorrents,
                  allTorrents, indexedTorrents, episodes, seasons, mappers,
                  microtasks >>
  /\ UNCHANGED << unifyVars, limiterVars >>

\* What every resumption of a mapper leaves alone.
ResumeFrame ==
  /\ UNCHANGED << nyaaConfig, facadeCall, serviceVars, episodeList, best, queries, torrents, nyaaPc, episodeNumberArg,
                  mappedTorrents, allTorrents, indexedTorrents, indexing >>
  /\ UNCHANGED << unifyVars, limiterVars >>

\* The mapper at the head of the queue resumes with findBySeasonNumber's
\* null: it draws an id, saves a new season and awaits the save.
ResumeCreateSeason ==
  /\ nyaaPc = "mapping"
  /\ microtasks # <<>>
  /\ LET k == Head(microtasks)
         m == mappers[k]
     IN /\ m.pc = "findSeason"
        /\ failing # "season"
        /\ ~m.found.some
        /\ seasons' = saveRecord(seasons, [ id |-> uuids + 1,
                                            animeId |-> indexing.anime.id,
                                            seasonNumber |-> m.season.v ])
        /\ uuids' = uuids + 1
        /\ mappers' = [mappers EXCEPT ![k] =
                         [m EXCEPT !.pc = "saveSeason", !.found = Some(uuids + 1)]]
        /\ microtasks' = Append(Tail(microtasks), k)
  /\ UNCHANGED episodes
  /\ ResumeFrame

\* The mapper resumes with a season, found or saved: it links the torrent
\* and goes on to the episode.
ResumeLinkSeason ==
  /\ nyaaPc = "mapping"
  /\ microtasks # <<>>
  /\ LET k == Head(microtasks)
         m == mappers[k]
         linked == EpisodePart([m EXCEPT !.torrent.seasonId = m.found],
                               indexing.anime.id)
     IN /\ m.pc = "saveSeason" \/ (m.pc = "findSeason" /\ m.found.some)
        /\ failing # "season"
        /\ mappers' = [mappers EXCEPT ![k] = linked]
        /\ microtasks' = IF linked.pc = "done" THEN Tail(microtasks)
                         ELSE Append(Tail(microtasks), k)
  /\ UNCHANGED << uuids, episodes, seasons >>
  /\ ResumeFrame

\* The mapper resumes with findByNumber's null: it draws an id, saves a new
\* episode and awaits the save.
ResumeCreateEpisode ==
  /\ nyaaPc = "mapping"
  /\ microtasks # <<>>
  /\ LET k == Head(microtasks)
         m == mappers[k]
     IN /\ m.pc = "findEpisode"
        /\ failing # "episode"
        /\ ~m.found.some
        /\ episodes' = saveRecord(episodes, [ id |-> uuids + 1,
                                              animeId |-> indexing.anime.id,
                                              number |-> m.torrent.episodeNumber.v ])
        /\ uuids' = uuids + 1
        /\ mappers' = [mappers EXCEPT ![k] =
                         [m EXCEPT !.pc = "saveEpisode", !.found = Some(uuids + 1)]]
        /\ microtasks' = Append(Tail(microtasks), k)
  /\ UNCHANGED seasons
  /\ ResumeFrame

\* The mapper resumes with an episode, found or saved: it links the torrent
\* and returns it.
ResumeLinkEpisode ==
  /\ nyaaPc = "mapping"
  /\ microtasks # <<>>
  /\ LET k == Head(microtasks)
         m == mappers[k]
     IN /\ m.pc = "saveEpisode" \/ (m.pc = "findEpisode" /\ m.found.some)
        /\ failing # "episode"
        /\ mappers' = [mappers EXCEPT ![k] =
                         [m EXCEPT !.pc = "done", !.torrent.episodeIds = << m.found.v >>]]
        /\ microtasks' = Tail(microtasks)
  /\ UNCHANGED << uuids, episodes, seasons >>
  /\ ResumeFrame

\* A lookup that ends the whole indexing call where it has to be caught.
ResumeSeasonThrows_Aborts ==
  /\ nyaaPc = "mapping"
  /\ microtasks # <<>>
  /\ mappers[Head(microtasks)].pc = "findSeason"
  /\ failing = "season"
  /\ nyaaPc' = "threw"
  /\ indexing' = NotIndexing
  /\ mappers' = <<>>
  /\ microtasks' = <<>>
  /\ UNCHANGED << nyaaConfig, facadeCall, serviceVars, episodeList, best, queries,
                  torrents, uuids, episodeNumberArg, mappedTorrents, allTorrents,
                  indexedTorrents, episodes, seasons >>
  /\ UNCHANGED << unifyVars, limiterVars >>

\* The mapper resumes with a rejection: findBySeasonNumber threw, or it
\* returned null and the save of the new season threw.  The catch logs it
\* and the mapper goes on to the episode, the torrent without seasonId.
ResumeSeasonThrows ==
  /\ nyaaPc = "mapping"
  /\ microtasks # <<>>
  /\ LET k == Head(microtasks)
         m == mappers[k]
         caught == EpisodePart([m EXCEPT !.caught = @ \cup {"season"}],
                               indexing.anime.id)
     IN /\ m.pc = "findSeason"
        /\ failing = "season"
        /\ mappers' = [mappers EXCEPT ![k] = caught]
        /\ microtasks' = IF caught.pc = "done" THEN Tail(microtasks)
                         ELSE Append(Tail(microtasks), k)
  /\ UNCHANGED << uuids, episodes, seasons >>
  /\ ResumeFrame

\* The mapper resumes with a rejection: findByNumber threw, or it returned
\* null and the save of the new episode threw.  The catch logs it and the
\* mapper returns the torrent without episodeIds.
ResumeEpisodeThrows ==
  /\ nyaaPc = "mapping"
  /\ microtasks # <<>>
  /\ LET k == Head(microtasks)
         m == mappers[k]
     IN /\ m.pc = "findEpisode"
        /\ failing = "episode"
        /\ mappers' = [mappers EXCEPT ![k] =
                         [m EXCEPT !.pc = "done", !.caught = @ \cup {"episode"}]]
        /\ microtasks' = Tail(microtasks)
  /\ UNCHANGED << uuids, episodes, seasons >>
  /\ ResumeFrame

\* The torrents Promise.all resolves with.
Mapped == Array([k \in DOMAIN mappers |-> mappers[k].torrent])

\* indexAnime: the mappers of a query are done and another query follows.
IndexAnimeNextQuery ==
  /\ nyaaPc = "mapping"
  /\ microtasks = <<>>
  /\ indexing.kind = "indexAnime"
  /\ indexing.k < indexing.n
  /\ mappedTorrents' = mappedTorrents \o Mapped
  /\ allTorrents' = allTorrents \o FilterValid(Mapped, nyaaOptions)
  /\ indexing' = [indexing EXCEPT !.k = indexing.k + 1]
  /\ mappers' = <<>>
  /\ nyaaPc' = "searching"
  /\ UNCHANGED << nyaaConfig, facadeCall, serviceVars, episodeList, best, queries, torrents, uuids, episodeNumberArg,
                  indexedTorrents, episodes, seasons, microtasks >>
  /\ UNCHANGED << unifyVars, limiterVars >>

\* The end of an indexing call: what is returned is saved under autoIndex.
IndexingEnds(kind, returned) ==
  /\ indexedTorrents' = returned
  /\ torrents' = IF nyaaOptions.autoIndex /\ Len(returned) > 0
                 THEN saveMany(torrents, returned)
                 ELSE torrents
  /\ indexMetrics' = CountIndexed(returned)
  /\ UNCHANGED << searchCache, searchMetrics >>
  /\ indexing' = NotIndexing
  /\ mappers' = <<>>
  /\ nyaaPc' = kind
  /\ UNCHANGED << nyaaConfig, facadeCall, episodeList, best, queries, uuids, episodeNumberArg, episodes,
                  seasons, microtasks >>
  /\ UNCHANGED << unifyVars, limiterVars >>

IndexAnimeEndsWith(valid) ==
  /\ allTorrents' = valid
  /\ IndexingEnds("indexedAnime", deduplicateTorrents(valid))

\* indexAnime: the mappers of the last query are done.
IndexAnimeEnds ==
  /\ nyaaPc = "mapping"
  /\ microtasks = <<>>
  /\ indexing.kind = "indexAnime"
  /\ indexing.k = indexing.n
  /\ mappedTorrents' = mappedTorrents \o Mapped
  /\ IndexAnimeEndsWith(allTorrents \o FilterValid(Mapped, nyaaOptions))

\* indexEpisode: the mappers are done.
IndexEpisodeEnds ==
  /\ nyaaPc = "mapping"
  /\ microtasks = <<>>
  /\ indexing.kind = "indexEpisode"
  /\ mappedTorrents' = Mapped
  /\ IndexingEnds("indexedEpisode", FilterValid(Mapped, nyaaOptions))
  /\ UNCHANGED allTorrents

\* The repository whose calls reject, if one does.
FailingInputs == {"none", "season", "episode"}

InitAssoc ==
  /\ providers = <<ANILIST, KITSU>>
  /\ animes = <<>>
  /\ pc = "idle"
  /\ externalIds = <<>>
  /\ options = DefaultOptions
  /\ i = 0
  /\ animeDataFromSources = <<>>
  /\ fetchLog = <<>>
  /\ limit = 0
  /\ resultsMap = <<>>
  /\ result = <<>>
  /\ threw = FALSE
  /\ animesAtCall = animes
  /\ nyaaOptions \in BatchOptionInputs
  /\ nyaaSite = AssocResults
  /\ nyaaService = TRUE
  /\ repositories = TRUE
  /\ failing \in FailingInputs
  /\ nyaaAnimes = NyaaAnimes
  /\ InitNyaaService
  /\ NoRateLimiter

NextAssoc ==
  \/ BeginIndexAnime
  \/ BeginIndexEpisode
  \/ IndexEpisodeFails
  \/ SearchReturns
  \/ SearchThrows
  \/ ResumeCreateSeason
  \/ ResumeLinkSeason
  \/ ResumeCreateEpisode
  \/ ResumeLinkEpisode
  \/ ResumeSeasonThrows
  \/ ResumeEpisodeThrows
  \/ IndexAnimeNextQuery
  \/ IndexAnimeEnds
  \/ IndexEpisodeEnds

SpecAssoc == InitAssoc /\ [][NextAssoc]_vars

(***************************************************************************)
(* Indexing an anime that has several title variants                       *)
(***************************************************************************)

\* The titles an anime can carry: none, or one of three names, in each of
\* romaji, English and native; at least one of them is present.
VariantTitles ==
  { [ romaji |-> r, english |-> e, native |-> n, synonyms |-> None ] :
      r \in {None, Some(<<"R">>)},
      e \in {None, Some(<<"R">>), Some(<<"E">>)},
      n \in {None, Some(<<"R">>), Some(<<"E">>), Some(<<"N">>)} }
  \ { [ romaji |-> None, english |-> None, native |-> None, synonyms |-> None ] }

VariantAnimes ==
  LET anime == mapAniListToAnime(CHOOSE d \in AniListItems : d.id = <<"0">>)
  IN { [anime EXCEPT !.title = t] : t \in VariantTitles }

\* One release, listed under every query.
VariantResults ==
  { [ id |-> <<"7">>,
      title |-> <<"a", " ", "S", "0", "1", "E", "0", "5">>,
      magnetLink |-> <<>>,
      seeders |-> 10, leechers |-> 5, downloads |-> 100, isTrusted |-> TRUE ] }

InitVariants ==
  /\ providers = <<ANILIST, KITSU>>
  /\ animes = <<>>
  /\ pc = "idle"
  /\ externalIds = <<>>
  /\ options = DefaultOptions
  /\ i = 0
  /\ animeDataFromSources = <<>>
  /\ fetchLog = <<>>
  /\ limit = 0
  /\ resultsMap = <<>>
  /\ result = <<>>
  /\ threw = FALSE
  /\ animesAtCall = animes
  /\ nyaaOptions = DefaultNyaaOptions
  /\ nyaaSite = VariantResults
  /\ nyaaService = TRUE
  /\ repositories = TRUE
  /\ failing = "none"
  /\ nyaaAnimes = VariantAnimes
  /\ InitNyaaService
  /\ NoRateLimiter

NextVariants ==
  \/ BeginIndexAnime
  \/ SearchReturns
  \/ SearchThrows
  \/ ResumeCreateSeason
  \/ ResumeLinkSeason
  \/ ResumeCreateEpisode
  \/ ResumeLinkEpisode
  \/ IndexAnimeNextQuery
  \/ IndexAnimeEnds

SpecVariants == InitVariants /\ [][NextVariants]_vars

(***************************************************************************)
(* The season organizer                                                    *)
(***************************************************************************)

\* Longest episode list organizeIntoSeasons is given.
MaxEpisodes == 27

\* The episodes a season holds at most.
SeasonLength == 13

\* The episodes of season k: positions (k-1)*13+1 .. k*13 of the list,
\* clipped to its length.
SeasonChunk(list, k) ==
  SubSeq(list, (k - 1) * SeasonLength + 1,
         IF k * SeasonLength < Len(list) THEN k * SeasonLength ELSE Len(list))

\* An organizer that cuts the list into seasons of one episode fewer.
organizeIntoSeasons_Short(animeId, list, drawn) ==
  Array([k \in 1..((Len(list) + SeasonLength - 2) \div (SeasonLength - 1)) |->
           [ id |-> drawn + k, animeId |-> animeId, seasonNumber |-> k,
             episodeCount |-> Len(SubSeq(list, (k - 1) * (SeasonLength - 1) + 1,
                                         IF k * (SeasonLength - 1) < Len(list)
                                         THEN k * (SeasonLength - 1) ELSE Len(list))),
             episodes |-> SubSeq(list, (k - 1) * (SeasonLength - 1) + 1,
                                 IF k * (SeasonLength - 1) < Len(list)
                                 THEN k * (SeasonLength - 1) ELSE Len(list)) ]])

\* organizeIntoSeasons: one Season record per chunk, numbered from 1.
organizeIntoSeasons(animeId, list, drawn) ==
  Array([k \in 1..((Len(list) + SeasonLength - 1) \div SeasonLength) |->
           [ id |-> drawn + k, animeId |-> animeId, seasonNumber |-> k,
             episodeCount |-> Len(SeasonChunk(list, k)),
             episodes |-> SeasonChunk(list, k) ]])

\* seasonRepository.save for every created season.
RECURSIVE saveSeasons(_, _)
saveSeasons(repo, created) ==
  IF created = <<>> THEN repo
  ELSE saveSeasons(saveRecord(repo, Head(created)), Tail(created))

\* The flat list of the episodes first .. first + n - 1 of an anime, sorted
\* by number.
EpisodesOf(animeId, first, n) ==
  Array([k \in 1..n |-> [id |-> k, animeId |-> animeId, number |-> first + k - 1]])

\* organizeIntoSeasons(animeId, episodes)
OrganizeIntoSeasons ==
  /\ nyaaPc = "idle"
  /\ \E anime \in nyaaAnimes, first \in {0, 1}, n \in 0..MaxEpisodes :
       /\ episodeList' = EpisodesOf(anime.id, first, n)
       /\ seasons' = saveSeasons(seasons,
                                 organizeIntoSeasons(anime.id, episodeList', uuids))
  /\ uuids' = uuids + Len(seasons') - Len(seasons)
  /\ nyaaPc' = "organized"
  /\ UNCHANGED << nyaaConfig, facadeCall, serviceVars, best, queries, torrents, episodeNumberArg,
                  mappedTorrents, allTorrents, indexedTorrents, episodes, indexing,
                  mappers, microtasks >>
  /\ UNCHANGED << unifyVars, limiterVars >>

InitSeasons ==
  /\ providers = <<ANILIST, KITSU>>
  /\ animes = <<>>
  /\ pc = "idle"
  /\ externalIds = <<>>
  /\ options = DefaultOptions
  /\ i = 0
  /\ animeDataFromSources = <<>>
  /\ fetchLog = <<>>
  /\ limit = 0
  /\ resultsMap = <<>>
  /\ result = <<>>
  /\ threw = FALSE
  /\ animesAtCall = animes
  /\ nyaaOptions = DefaultNyaaOptions
  /\ nyaaSite = {}
  /\ nyaaService = FALSE
  /\ repositories = TRUE
  /\ failing = "none"
  /\ nyaaAnimes = NyaaAnimes
  /\ InitNyaaService
  /\ NoRateLimiter

NextSeasons ==
  \/ OrganizeIntoSeasons

SpecSeasons == InitSeasons /\ [][NextSeasons]_vars

(***************************************************************************)
(* The torrent methods of MiauIndex and the service methods behind them    *)
(***************************************************************************)

\* The searches after which the caller makes no further call.
MaxSearches == 2

\* The listings of the site the facade indexes: two releases with an info
\* hash each.
FacadeResults ==
  { [ id |-> <<"1", "1">>,
      title |-> <<"a", " ", "e", "0", "5">>,
      magnetLink |-> MagnetPrefix \o Repeat("c", InfoHashLength),
      seeders |-> 8, leechers |-> 4, downloads |-> 80, isTrusted |-> TRUE ],
    [ id |-> <<"1", "2">>,
      title |-> <<"a", " ", "e", "0", "1">>,
      magnetLink |-> MagnetPrefix \o Repeat("d", InfoHashLength),
      seeders |-> 3, leechers |-> 1, downloads |-> 30, isTrusted |-> TRUE ] }

\* The anime the facade is called with.
FacadeAnimes == { mapAniListToAnime(CHOOSE d \in AniListItems : d.id = <<"0">>) }

FacadeOptionInputs ==
  { DefaultNyaaOptions, [DefaultNyaaOptions EXCEPT !.enableCache = FALSE] }

\* throw new Error('Nyaa extension is not enabled. Set enableNyaa: true in config.')
NyaaNotEnabled == "Nyaa extension is not enabled. Set enableNyaa: true in config."

\* InMemoryTorrentRepository.findByAnimeId
findByAnimeId(repo, animeId) == SelectSeq(repo, LAMBDA t : t.animeId = animeId)

\* InMemoryTorrentRepository.findByFilters for the filters animeId and
\* quality (or undefined).
findByQuality(repo, animeId, quality) ==
  SortBySeedersDesc(
    SelectSeq(repo, LAMBDA t :
      /\ (animeId # <<>> => t.animeId = animeId)
      /\ (quality.some => t.metadata.quality = quality.v)))

\* torrents.reduce((sum, t) => sum + t.seeders, 0)
RECURSIVE SumSeeders(_)
SumSeeders(found) ==
  IF found = <<>> THEN 0 ELSE Head(found).seeders + SumSeeders(Tail(found))

\* NyaaService.getTorrentStats on the torrents of the anime: the count, the
\* count per quality, and the average of the seeders as a fraction.
getTorrentStats(found) ==
  [ totalTorrents |-> Len(found),
    byQuality |-> [ q \in { found[k].metadata.quality : k \in DOMAIN found } |->
                      Cardinality({ k \in DOMAIN found : found[k].metadata.quality = q }) ],
    averageSeeders |-> IF Len(found) = 0 THEN << 0, 1 >>
                       ELSE << SumSeeders(found), Len(found) >> ]

\* NyaaService.getMetrics; cacheHitRate is the fraction
\* (cacheHits * 100) / totalSearches.
getMetrics ==
  [ totalSearches |-> searchMetrics.totalSearches,
    cacheHits |-> searchMetrics.cacheHits,
    cacheMisses |-> searchMetrics.cacheMisses,
    totalTorrentsIndexed |-> indexMetrics.totalTorrentsIndexed,
    failedSearches |-> indexMetrics.failedSearches,
    cacheHitRate |-> IF searchMetrics.totalSearches > 0
                     THEN << searchMetrics.cacheHits * 100, searchMetrics.totalSearches >>
                     ELSE << 0, 1 >> ]

\* What a query method leaves alone.
QueryFrame ==
  /\ nyaaPc' = "asked"
  /\ UNCHANGED << nyaaConfig, facadeCall, serviceVars, episodeList, queries, torrents,
                  uuids, episodeNumberArg, mappedTorrents, allTorrents,
                  indexedTorrents, assocVars >>
  /\ UNCHANGED << unifyVars, limiterVars >>

\* NyaaService.searchTorrents(anime) with no further filters.
SearchTorrents ==
  /\ nyaaPc \in Refreshable
  /\ \E anime \in nyaaAnimes :
       best' = [ kind |-> "search", animeId |-> anime.id,
                 value |-> findByQuality(torrents, anime.id, None) ]
  /\ QueryFrame

\* NyaaService.getTorrentsByQuality(animeId, quality)
GetTorrentsByQuality ==
  /\ nyaaPc \in Refreshable
  /\ \E anime \in nyaaAnimes, quality \in { HD_720p, UNKNOWN } :
       best' = [ kind |-> "byQuality", animeId |-> anime.id,
                 value |-> findByQuality(torrents, anime.id, Some(quality)) ]
  /\ QueryFrame

\* NyaaService.getTorrentStats(animeId)
GetTorrentStats ==
  /\ nyaaPc \in Refreshable
  /\ \E anime \in nyaaAnimes :
       best' = [ kind |-> "stats", animeId |-> anime.id,
                 value |-> getTorrentStats(findByAnimeId(torrents, anime.id)) ]
  /\ QueryFrame

\* NyaaService.getMetrics()
GetMetrics ==
  /\ nyaaPc \in Refreshable
  /\ best' = [kind |-> "metrics", value |-> getMetrics]
  /\ QueryFrame

\* NyaaService.clearCache()
ClearCache ==
  /\ nyaaPc \in Refreshable
  /\ searchCache # <<>>
  /\ searchCache' = <<>>
  /\ nyaaPc' = "cleared"
  /\ UNCHANGED << nyaaConfig, facadeCall, searchMetrics, indexMetrics, episodeList,
                  best, queries, torrents, uuids, episodeNumberArg, mappedTorrents,
                  allTorrents, indexedTorrents, assocVars >>
  /\ UNCHANGED << unifyVars, limiterVars >>

\* How the search of one refreshTorrent ends: the site fails, or answers.
RefreshOutcomes ==
  { [fails |-> TRUE, results |-> <<>>] } \cup
  { [fails |-> FALSE, results |-> a] : a \in SeqsUpTo(nyaaSite, MaxResults) }

\* refreshTorrent(torrent.id) inside refreshAllTorrents.  r holds the cache,
\* the counters, the repository and the queries so far, the value of the
\* local refreshed, and how many torrents were updated from a result.
\* refreshTorrent catches a failed search, so refreshed++ always follows.
RefreshOne(r, id, outcome) ==
  LET torrent == r.torrents[CHOOSE k \in DOMAIN r.torrents : r.torrents[k].id = id]
      before == [cache |-> r.cache, metrics |-> r.metrics, results |-> <<>>]
      failed == outcome.fails /\ ~CacheHit(r.cache, torrent.nyaaId)
      s == IF failed THEN searchNyaaFails(before)
           ELSE searchNyaa(before, torrent.nyaaId, outcome.results)
      results == IF failed THEN <<>> ELSE s.results[1]
  IN [ cache |-> s.cache,
       metrics |-> s.metrics,
       torrents |-> IF Len(results) = 0 THEN r.torrents
                    ELSE saveTorrent(r.torrents,
                                     updateTorrentFromNyaaResult(torrent, results[1])),
       queries |-> Append(r.queries, torrent.nyaaId),
       refreshed |-> r.refreshed + 1,
       updated |-> r.updated + (IF Len(results) = 0 THEN 0 ELSE 1) ]

\* for (const torrent of torrents): the first n torrents refreshed in order.
RECURSIVE RefreshEach(_, _, _)
RefreshEach(found, outcomes, n) ==
  IF n = 0
  THEN [ cache |-> searchCache, metrics |-> searchMetrics, torrents |-> torrents,
         queries |-> queries, refreshed |-> 0, updated |-> 0 ]
  ELSE RefreshOne(RefreshEach(found, outcomes, n - 1), found[n].id, outcomes[n])

\* refreshAllTorrents at its return: refreshed is returned.
RefreshAllReturns(animeId, r) ==
  /\ searchCache' = r.cache
  /\ searchMetrics' = r.metrics
  /\ torrents' = r.torrents
  /\ queries' = r.queries
  /\ best' = [ kind |-> "refreshAll", animeId |-> animeId, value |-> r.refreshed,
               updated |-> r.updated ]

\* NyaaService.refreshAllTorrents(animeId)
RefreshAllTorrents ==
  /\ nyaaPc \in Refreshable
  /\ \E anime \in nyaaAnimes :
       /\ searchMetrics.totalSearches + Len(findByAnimeId(torrents, anime.id))
            <= MaxSearches
       /\ \E outcomes \in [1..Len(findByAnimeId(torrents, anime.id)) -> RefreshOutcomes] :
            RefreshAllReturns(anime.id,
                              RefreshEach(findByAnimeId(torrents, anime.id), outcomes,
                                          Len(findByAnimeId(torrents, anime.id))))
  /\ nyaaPc' = "refreshed"
  /\ UNCHANGED << nyaaConfig, facadeCall, indexMetrics, episodeList, uuids,
                  episodeNumberArg, mappedTorrents, allTorrents, indexedTorrents,
                  assocVars >>
  /\ UNCHANGED << unifyVars, limiterVars >>

\* A torrent method that returned an empty result where it has to throw.
NotEnabled_Silent(op) ==
  /\ nyaaPc = "idle"
  /\ nyaaPc' = "asked"
  /\ UNCHANGED << nyaaConfig, facadeCall, serviceVars, episodeList, best, queries,
                  torrents, uuids, episodeNumberArg, mappedTorrents, allTorrents,
                  indexedTorrents, assocVars >>
  /\ UNCHANGED << unifyVars, limiterVars >>

\* A torrent method of MiauIndex called while this.nyaaService is
\* undefined: it throws.
NotEnabled(op) ==
  /\ nyaaPc = "idle"
  /\ facadeCall' = [op |-> op, error |-> NyaaNotEnabled]
  /\ nyaaPc' = "threw"
  /\ UNCHANGED << nyaaConfig, serviceVars, episodeList, best, queries, torrents, uuids,
                  episodeNumberArg, mappedTorrents, allTorrents, indexedTorrents,
                  assocVars >>
  /\ UNCHANGED << unifyVars, limiterVars >>

\* MiauIndex.indexTorrents(anime)
MiauIndexTorrents ==
  IF nyaaService THEN IndexAnime \/ IndexAnimeFails
  ELSE NotEnabled("indexTorrents")

\* MiauIndex.indexEpisodeTorrents(anime, episodeNumber)
MiauIndexEpisodeTorrents ==
  IF nyaaService THEN IndexEpisode \/ IndexEpisodeFails
  ELSE NotEnabled("indexEpisodeTorrents")

\* MiauIndex.searchTorrents(anime, filters)
MiauSearchTorrents ==
  IF nyaaService THEN SearchTorrents ELSE NotEnabled("searchTorrents")

\* MiauIndex.getBestTorrent(anime, episodeNumber)
MiauGetBestTorrent ==
  IF nyaaService THEN GetBestTorrentForEpisode ELSE NotEnabled("getBestTorrent")

\* MiauIndex.getTorrentStats(animeId)
MiauGetTorrentStats ==
  IF nyaaService THEN GetTorrentStats ELSE NotEnabled("getTorrentStats")

\* MiauIndex.refreshTorrent(torrentId)
MiauRefreshTorrent ==
  IF nyaaService THEN RefreshTorrent \/ RefreshTorrentFails \/ RefreshUnknownTorrent
  ELSE NotEnabled("refreshTorrent")

\* MiauIndex.getNyaaMetrics()
MiauGetNyaaMetrics ==
  IF nyaaService THEN GetMetrics ELSE NotEnabled("getNyaaMetrics")

\* MiauIndex.clearNyaaCache()
MiauClearNyaaCache ==
  IF nyaaService THEN ClearCache ELSE NotEnabled("clearNyaaCache")

\* MiauIndex.refreshAllTorrents(animeId)
MiauRefreshAllTorrents ==
  IF nyaaService THEN RefreshAllTorrents ELSE NotEnabled("refreshAllTorrents")

\* MiauIndex.getTorrentsByQuality(animeId, quality)
MiauGetTorrentsByQuality ==
  IF nyaaService THEN GetTorrentsByQuality ELSE NotEnabled("getTorrentsByQuality")

\* MiauIndex.getBestQualityForEpisode(animeId, episodeNumber)
MiauGetBestQualityForEpisode ==
  IF nyaaService THEN GetBestQualityForEpisode
  ELSE NotEnabled("getBestQualityForEpisode")

\* The call returned, or threw, and the caller goes on to the next call;
\* what the call returned is dropped.
NextCall ==
  /\ nyaaPc # "idle"
  /\ searchMetrics.totalSearches < MaxSearches
  /\ nyaaPc' = "idle"
  /\ best' = NotAsked
  /\ episodeNumberArg' = NoNumber
  /\ mappedTorrents' = <<>>
  /\ allTorrents' = <<>>
  /\ indexedTorrents' = <<>>
  /\ UNCHANGED << nyaaConfig, facadeCall, serviceVars, episodeList, queries, torrents,
                  uuids, assocVars >>
  /\ UNCHANGED << unifyVars, limiterVars >>

InitFacade ==
  /\ providers = <<ANILIST, KITSU>>
  /\ animes = <<>>
  /\ pc = "idle"
  /\ externalIds = <<>>
  /\ options = DefaultOptions
  /\ i = 0
  /\ animeDataFromSources = <<>>
  /\ fetchLog = <<>>
  /\ limit = 0
  /\ resultsMap = <<>>
  /\ result = <<>>
  /\ threw = FALSE
  /\ animesAtCall = animes
  /\ nyaaOptions \in FacadeOptionInputs
  /\ nyaaSite = FacadeResults
  /\ nyaaService \in BOOLEAN
  /\ repositories = FALSE
  /\ failing = "none"
  /\ nyaaAnimes = FacadeAnimes
  /\ InitNyaaService
  /\ NoRateLimiter

NextFacade ==
  \/ MiauIndexTorrents
  \/ MiauIndexEpisodeTorrents
  \/ MiauSearchTorrents
  \/ MiauGetBestTorrent
  \/ MiauGetTorrentStats
  \/ MiauRefreshTorrent
  \/ MiauGetNyaaMetrics
  \/ MiauClearNyaaCache
  \/ MiauRefreshAllTorrents
  \/ MiauGetTorrentsByQuality
  \/ MiauGetBestQualityForEpisode

SpecFacade == InitFacade /\ [][NextFacade]_vars

\* The Nyaa service called again and again, with and without a cache.
InitService ==
  /\ providers = <<ANILIST, KITSU>>
  /\ animes = <<>>
  /\ pc = "idle"
  /\ externalIds = <<>>
  /\ options = DefaultOptions
  /\ i = 0
  /\ animeDataFromSources = <<>>
  /\ fetchLog = <<>>
  /\ limit = 0
  /\ resultsMap = <<>>
  /\ result = <<>>
  /\ threw = FALSE
  /\ animesAtCall = animes
  /\ nyaaOptions \in FacadeOptionInputs
  /\ nyaaSite = FacadeResults
  /\ nyaaService = TRUE
  /\ repositories = FALSE
  /\ failing = "none"
  /\ nyaaAnimes = FacadeAnimes
  /\ InitNyaaService
  /\ NoRateLimiter

NextService ==
  \/ IndexAnime
  \/ IndexAnimeFails
  \/ RefreshTorrent
  \/ RefreshTorrentFails
  \/ RefreshUnknownTorrent
  \/ RefreshAllTorrents
  \/ NextCall

SpecService == InitService /\ [][NextService]_vars

(***************************************************************************)
(* MiauIndex: the local repository                                         *)
(***************************************************************************)

\* The page sizes getAllLocal, and clearLocal and getStats, ask findAll for.
GetAllLocalLimit == 1000
ClearLocalLimit == 10000

\* Stored anime, with the fields getStats reads.
LocalAnimes ==
  { [ id |-> AnimeId(ANILIST, <<"0">>), type |-> "TV", status |-> "FINISHED",
      externalIds |-> << [source |-> ANILIST, id |-> <<"0">>] >> ],
    [ id |-> AnimeId(ANILIST, <<"3">>), type |-> "MOVIE", status |-> "FINISHED",
      externalIds |-> << [source |-> ANILIST, id |-> <<"3">>],
                         [source |-> KITSU, id |-> <<"1", "1">>] >> ],
    [ id |-> AnimeId(KITSU, <<"1", "0">>), type |-> "TV", status |-> "AIRING",
      externalIds |-> << [source |-> KITSU, id |-> <<"1", "0">>] >> ],
    [ id |-> AnimeId(MYANIMELIST, <<"5">>), type |-> "OVA", status |-> "AIRING",
      externalIds |-> <<>> ] }

\* InMemoryAnimeRepository.findAll: page * limit is where the page starts.
findAll(repo, page, size) ==
  LET start == page * size
  IN Array([k \in 1..(IF Len(repo) > start
                      THEN (IF Len(repo) - start < size THEN Len(repo) - start ELSE size)
                      ELSE 0) |-> repo[start + k]])

\* InMemoryAnimeRepository.delete
delete(repo, id) == SelectSeq(repo, LAMBDA a : a.id # id)

\* for (const anime of allAnime) await this.repository.delete(anime.id)
RECURSIVE DeleteEach(_, _, _)
DeleteEach(repo, allAnime, n) ==
  IF n = 0 THEN repo ELSE delete(DeleteEach(repo, allAnime, n - 1), allAnime[n].id)

\* InMemoryAnimeRepository.count
count(repo) == Len(repo)

\* stats.byType[anime.type] = (stats.byType[anime.type] || 0) + 1, and the
\* same for the status, over the anime given.
CountBy(allAnime, field) ==
  [v \in {allAnime[k][field] : k \in DOMAIN allAnime} |->
     Cardinality({k \in DOMAIN allAnime : allAnime[k][field] = v})]

\* stats.sources[externalId.source] = (stats.sources[externalId.source] || 0) + 1
CountSources(allAnime) ==
  LET ids == { <<k, j>> : k \in DOMAIN allAnime, j \in 1..MaxExternalIds }
      held == { p \in ids : p[2] \in DOMAIN allAnime[p[1]].externalIds }
  IN [s \in {allAnime[p[1]].externalIds[p[2]].source : p \in held} |->
        Cardinality({p \in held : allAnime[p[1]].externalIds[p[2]].source = s})]

\* The statistics of a list of anime.
StatsOf(allAnime) ==
  [ totalAnime |-> Len(allAnime),
    byType |-> CountBy(allAnime, "type"),
    byStatus |-> CountBy(allAnime, "status"),
    sources |-> CountSources(allAnime) ]

\* MiauIndex.getStats
getStats(repo) == StatsOf(findAll(repo, 1, ClearLocalLimit))

LocalFrame ==
  /\ UNCHANGED << providers, externalIds, options, i, animeDataFromSources, fetchLog,
                  limit, resultsMap, threw, animesAtCall >>
  /\ UNCHANGED << nyaaVars, limiterVars >>

\* InMemoryAnimeRepository.save, as fetchAnime and searchAnime call it.
SaveLocal ==
  /\ \E anime \in LocalAnimes : animes' = save(animes, anime)
  /\ pc' = "saved"
  /\ result' = <<>>
  /\ LocalFrame

GetAllLocal ==
  /\ result' = findAll(animes, 1, GetAllLocalLimit)
  /\ pc' = "allLocal"
  /\ UNCHANGED animes
  /\ LocalFrame

ClearLocal ==
  /\ LET allAnime == findAll(animes, 1, ClearLocalLimit)
     IN animes' = DeleteEach(animes, allAnime, Len(allAnime))
  /\ result' = <<>>
  /\ pc' = "cleared"
  /\ LocalFrame

GetStats ==
  /\ result' = << getStats(animes) >>
  /\ pc' = "stats"
  /\ UNCHANGED animes
  /\ LocalFrame

InitLocal ==
  /\ providers = <<ANILIST, KITSU>>
  /\ animes = <<>>
  /\ pc = "idle"
  /\ externalIds = <<>>
  /\ options = DefaultOptions
  /\ i = 0
  /\ animeDataFromSources = <<>>
  /\ fetchLog = <<>>
  /\ limit = 0
  /\ resultsMap = <<>>
  /\ result = <<>>
  /\ threw = FALSE
  /\ animesAtCall = animes
  /\ nyaaOptions = DefaultNyaaOptions
  /\ nyaaSite = {}
  /\ nyaaService = FALSE
  /\ repositories = FALSE
  /\ failing = "none"
  /\ nyaaAnimes = {}
  /\ InitNyaaService
  /\ NoRateLimiter

NextLocal ==
  \/ SaveLocal
  \/ GetAllLocal
  \/ ClearLocal
  \/ GetStats

SpecLocal == InitLocal /\ [][NextLocal]_vars

(***************************************************************************)
(* RateLimiter                                                             *)
(***************************************************************************)

MaxCalls == 2
MaxTime == 2

LimiterKeys == {"a", "b"}

\* RateLimiterOptions as the constructor completes them.
LimiterOptionInputs ==
  { [ maxRequests |-> m, windowMs |-> 2,
      skipSuccessfulRequests |-> FALSE, skipFailedRequests |-> FALSE ] : m \in {1, 2} }

\* this.requests.get(key) || []
RecordsOf(map, key) == IF key \in DOMAIN map THEN map[key] ELSE <<>>

\* this.requests.set(key, records)
SetRecords(map, key, records) ==
  [k \in DOMAIN map \cup {key} |-> IF k = key THEN records ELSE map[k]]

\* records.filter((r) => r.timestamp > windowStart)
RecentRequests(records, time) ==
  SelectSeq(records, LAMBDA r : r.timestamp > time - limiterOptions.windowMs)

cleanup(map, key) ==
  IF key \in DOMAIN map
  THEN SetRecords(map, key, RecentRequests(map[key], now))
  ELSE map

\* checkLimit resolves: fewer than maxRequests records in the window.
LimitAllows(map, key) ==
  Len(RecentRequests(RecordsOf(cleanup(map, key), key), now))
    < limiterOptions.maxRequests

recordRequest(map, key, success) ==
  IF \/ success /\ limiterOptions.skipSuccessfulRequests
     \/ ~success /\ limiterOptions.skipFailedRequests
  THEN map
  ELSE SetRecords(map, key,
                  Append(RecordsOf(map, key), [timestamp |-> now, success |-> success]))

LimiterFrame ==
  /\ UNCHANGED limiterOptions
  /\ UNCHANGED << unifyVars, nyaaVars >>

\* checkLimit(key), called by itself.
CheckLimit ==
  /\ \E key \in LimiterKeys :
       /\ requests' = cleanup(requests, key)
       /\ checked' = [key |-> key, allowed |-> LimitAllows(requests, key)]
  /\ UNCHANGED << now, calls >>
  /\ LimiterFrame

\* execute(key, fn) up to its first await: checkLimit has run, and the call
\* waits to resume with its answer.
Execute ==
  /\ Len(calls) < MaxCalls
  /\ \E key \in LimiterKeys :
       /\ requests' = cleanup(requests, key)
       /\ calls' = Append(calls,
                          [ key |-> key,
                            pc |-> IF LimitAllows(requests, key)
                                   THEN "checked" ELSE "limited",
                            at |-> now ])
  /\ UNCHANGED << now, checked >>
  /\ LimiterFrame

\* execute resumes after await this.checkLimit(key) and calls fn().
ExecuteRunsFn ==
  /\ \E c \in DOMAIN calls :
       /\ calls[c].pc = "checked"
       /\ \A b \in 1..(c - 1) : calls[b].pc # "checked"
       /\ calls' = [calls EXCEPT ![c] = [@ EXCEPT !.pc = "running", !.at = now]]
  /\ UNCHANGED << requests, now, checked >>
  /\ LimiterFrame

\* fn() settles: the request is recorded, and execute returns or rethrows.
ExecuteEnds(c, success) ==
  /\ calls[c].pc = "running"
  /\ \A b \in DOMAIN calls : calls[b].pc # "checked"
  /\ requests' = recordRequest(requests, calls[c].key, success)
  /\ calls' = [calls EXCEPT ![c] =
                 [@ EXCEPT !.pc = IF success THEN "returned" ELSE "threw"]]
  /\ UNCHANGED << now, checked >>
  /\ LimiterFrame

FnResolves == \E c \in DOMAIN calls : ExecuteEnds(c, TRUE)

FnRejects == \E c \in DOMAIN calls : ExecuteEnds(c, FALSE)

\* startCleanup: the interval drops the old records and the empty keys.
PeriodicCleanup ==
  /\ now > 0
  /\ now % limiterOptions.windowMs = 0
  /\ \A b \in DOMAIN calls : calls[b].pc # "checked"
  /\ requests' =
       LET kept == { k \in DOMAIN requests : RecentRequests(requests[k], now) # <<>> }
       IN [k \in kept |-> RecentRequests(requests[k], now)]
  /\ UNCHANGED << now, calls, checked >>
  /\ LimiterFrame

\* A millisecond passes; the calls that wait on a resolved promise resume
\* before any time does.
Tick ==
  /\ now < MaxTime
  /\ \A b \in DOMAIN calls : calls[b].pc # "checked"
  /\ now' = now + 1
  /\ UNCHANGED << requests, calls, checked >>
  /\ LimiterFrame

InitLimiter ==
  /\ providers = <<ANILIST, KITSU>>
  /\ animes = <<>>
  /\ pc = "idle"
  /\ externalIds = <<>>
  /\ options = DefaultOptions
  /\ i = 0
  /\ animeDataFromSources = <<>>
  /\ fetchLog = <<>>
  /\ limit = 0
  /\ resultsMap = <<>>
  /\ result = <<>>
  /\ threw = FALSE
  /\ animesAtCall = animes
  /\ nyaaOptions = DefaultNyaaOptions
  /\ nyaaSite = {}
  /\ nyaaService = FALSE
  /\ repositories = FALSE
  /\ failing = "none"
  /\ nyaaAnimes = {}
  /\ InitNyaaService
  /\ limiterOptions \in LimiterOptionInputs
  /\ requests = <<>>
  /\ now = 0
  /\ calls = <<>>
  /\ checked = NotChecked

NextLimiter ==
  \/ CheckLimit
  \/ Execute
  \/ ExecuteRunsFn
  \/ FnResolves
  \/ FnRejects
  \/ PeriodicCleanup
  \/ Tick

SpecLimiter == InitLimiter /\ [][NextLimiter]_vars

(***************************************************************************)
(* Properties of the unification service                                   *)
(***************************************************************************)

\* The records the requested sources returned, in request order.
Contributing(log) ==
  Flat([k \in DOMAIN log |-> IF log[k].kind = "data" THEN log[k].anime ELSE <<>>])

NoSourceReturnedData(log) == \A k \in DOMAIN log : log[k].kind # "data"

\* Every unification the finished call made: the source records that went
\* in, the options, and the record that came out.
Unifications ==
  IF pc = "fetched" /\ ~threw
  THEN { [sources |-> animeDataFromSources, opts |-> options, unified |-> result[1]] }
  ELSE IF pc = "searched"
  THEN { [sources |-> resultsMap[k].group,
          opts |-> [preferredSources |-> None, mergeArrays |-> Some(TRUE)],
          unified |-> result[k]] : k \in DOMAIN result }
  ELSE {}

\* C1: when fetchAndUnify ends and none of the requested sources returned
\* data (each was unregistered, threw, or answered null), the call threw,
\* returned nothing, and the repository is as it was when the call began.
C1_TotalFailureThrowsAndSavesNothing ==
  (pc = "fetched" /\ NoSourceReturnedData(fetchLog))
    => /\ threw
       /\ result = <<>>
       /\ animes = animesAtCall

\* C1 witness: a finished call over two sources, one that threw and one that
\* answered null or was unregistered, on a repository that held a record.
C1_Witness ==
  /\ pc = "fetched"
  /\ threw
  /\ Len(fetchLog) = 2
  /\ \E k \in DOMAIN fetchLog : fetchLog[k].kind = "throw"
  /\ \E k \in DOMAIN fetchLog : fetchLog[k].kind \in {"null", "unregistered"}
  /\ animes # <<>>

\* C2: when fetchAndUnify ends and at least one source returned data, every
\* requested source was attempted (a throwing or empty source did not abort
\* the call), the call did not throw, it returned the record unified from
\* exactly the records that were returned, in request order, and that record
\* is stored in the repository.
C2_PartialFailureUnifiesContributors ==
  (pc = "fetched" /\ ~NoSourceReturnedData(fetchLog))
    => /\ ~threw
       /\ Len(fetchLog) = Len(externalIds)
       /\ result = << unifyAnimeData(Contributing(fetchLog), options) >>
       /\ \E k \in DOMAIN animes : animes[k] = result[1]

\* C2 witness: a finished call where the first source threw and the second
\* returned data.
C2_Witness ==
  /\ pc = "fetched"
  /\ ~threw
  /\ Len(fetchLog) = 2
  /\ fetchLog[1].kind = "throw"
  /\ fetchLog[2].kind = "data"
  /\ result # <<>>

\* t is the deduplicated union of the sources' arrays of field f, sorted
\* ascending in string order.
IsSortedUnion(t, sources, f) ==
  /\ Range(t) = UNION { Range(sources[k][f]) : k \in DOMAIN sources }
  /\ \A a, b \in DOMAIN t : a < b => StrLess(t[a], t[b])

ArrayFields == {"genres", "themes", "studios", "producers", "licensors"}

\* C3: with mergeArrays true each of genres, themes, studios, producers and
\* licensors of the unified record is the deduplicated sorted union of that
\* field over the sources; with mergeArrays false it is the first source's.
C3_ArrayFieldsMerged ==
  \A u \in Unifications : \A f \in ArrayFields :
    IF MergeArraysOf(u.opts)
    THEN IsSortedUnion(u.unified[f], u.sources, f)
    ELSE u.unified[f] = u.sources[1][f]

\* The same statement for the four fields unifyAnimeData does merge.
C3_MergedFieldsOnly ==
  \A u \in Unifications : \A f \in ArrayFields \ {"licensors"} :
    IF MergeArraysOf(u.opts)
    THEN IsSortedUnion(u.unified[f], u.sources, f)
    ELSE u.unified[f] = u.sources[1][f]

\* o is the first defined value of vals, undefined when none is defined.
IsFirstDefined(o, vals) ==
  IF \E k \in DOMAIN vals : vals[k].some
  THEN LET first == CHOOSE k \in DOMAIN vals :
                      vals[k].some /\ \A m \in 1..(k - 1) : ~vals[m].some
       IN o = vals[first]
  ELSE ~o.some

\* C4: each of title.romaji, title.english and title.native of the unified
\* record is the first defined value in source order, undefined only when no
\* source defines it, whatever options.preferredSources is.
C4_ScalarIsFirstDefined ==
  \A u \in Unifications : \A f \in {"romaji", "english", "native"} :
    IsFirstDefined(u.unified.title[f], TitleField(u.sources, f))

\* C4 witness: preferredSources was given, the first source has no romaji
\* title, a later one has, and two sources define different english titles.
C4_Witness ==
  \E u \in Unifications :
    /\ u.opts.preferredSources.some
    /\ Len(u.sources) = 2
    /\ ~u.sources[1].title.romaji.some
    /\ u.sources[2].title.romaji.some
    /\ u.sources[1].title.english.some
    /\ u.sources[2].title.english.some
    /\ u.sources[1].title.english # u.sources[2].title.english

\* C5: when some source has a non-empty synopsis, the unified synopsis is
\* the one of the earliest source among those of maximal length.
C5_SynopsisLongestEarliest ==
  \A u \in Unifications :
    LET S == u.sources
        nonEmpty == { k \in DOMAIN S : Truthy(S[k].synopsis) }
    IN nonEmpty # {} =>
         \E k \in nonEmpty :
           /\ \A m \in nonEmpty : Len(S[m].synopsis.v) <= Len(S[k].synopsis.v)
           /\ \A m \in nonEmpty :
                Len(S[m].synopsis.v) = Len(S[k].synopsis.v) => k <= m
           /\ u.unified.synopsis = S[k].synopsis

\* C5 witness: two sources have different synopses of the same, maximal
\* length.
C5_Witness ==
  \E u \in Unifications :
    /\ Len(u.sources) = 2
    /\ Truthy(u.sources[1].synopsis)
    /\ Truthy(u.sources[2].synopsis)
    /\ Len(u.sources[1].synopsis.v) = Len(u.sources[2].synopsis.v)
    /\ u.sources[1].synopsis # u.sources[2].synopsis

RECURSIVE SumLen(_)
SumLen(ss) == IF ss = <<>> THEN 0 ELSE Len(Head(ss)) + SumLen(Tail(ss))

\* t holds every entry of every sequence of ss, in order, and nothing else.
IsConcatenation(t, ss) ==
  /\ Len(t) = SumLen(ss)
  /\ \A k \in DOMAIN ss : \A m \in DOMAIN ss[k] :
       t[SumLen(SubSeq(ss, 1, k - 1)) + m] = ss[k][m]

\* C6: the unified ratings are the sources' rating entries concatenated in
\* source order: nothing dropped, merged or reordered.
C6_RatingsConcatenated ==
  \A u \in Unifications :
    IsConcatenation(u.unified.ratings, Field(u.sources, "ratings"))

\* C6 witness: two sources of the same origin each carry a rating entry.
C6_Witness ==
  \E u \in Unifications :
    /\ Len(u.sources) = 2
    /\ u.sources[1].ratings # <<>>
    /\ u.sources[2].ratings # <<>>
    /\ u.sources[1].ratings[1].source = u.sources[2].ratings[1].source

C8_ExternalIdsCoverSources ==
  \A u \in Unifications :
    /\ Len(u.unified.externalIds) >= Len(u.sources)
    /\ Len(u.unified.externalIds) >=
         Cardinality({ u.sources[k].externalIds[1].source : k \in DOMAIN u.sources })

\* C8 witness: a search unified a group of records of two origins.
C8_Witness ==
  /\ pc = "searched"
  /\ \E u \in Unifications :
       Cardinality({ u.sources[k].externalIds[1].source : k \in DOMAIN u.sources }) >= 2

(***************************************************************************)
(* Properties of the Nyaa torrent service                                  *)
(***************************************************************************)

\* The deduplication key of a torrent as the contract words it: the info
\* hash when there is one, otherwise the normalized title.
KeyOf(t) == IF t.infoHash = <<>> THEN normalize(t.title) ELSE t.infoHash

KeysOf(ts) == { KeyOf(ts[k]) : k \in DOMAIN ts }

\* C9: deduplicateTorrents returns torrents of its input, exactly one per
\* distinct key (the info hash when non-empty, otherwise the normalized
\* title), every key of the input is represented, and the torrent kept for
\* a key has the largest seeders count among the input torrents of that key.
C9_DedupOnePerKeyMaxSeeders ==
  nyaaPc = "indexedAnime" =>
    /\ \A a, b \in DOMAIN indexedTorrents :
         a # b => KeyOf(indexedTorrents[a]) # KeyOf(indexedTorrents[b])
    /\ KeysOf(indexedTorrents) = KeysOf(allTorrents)
    /\ \A a \in DOMAIN indexedTorrents :
         /\ indexedTorrents[a] \in Range(allTorrents)
         /\ \A b \in DOMAIN allTorrents :
              KeyOf(allTorrents[b]) = KeyOf(indexedTorrents[a])
                => allTorrents[b].seeders <= indexedTorrents[a].seeders

\* indexAnime deduplicated an input where the same release came twice under
\* one info hash, and where a better seeded torrent came after a torrent of
\* the same normalized title, neither having an info hash.
C9_Witness ==
  /\ nyaaPc = "indexedAnime"
  /\ Len(indexedTorrents) < Len(allTorrents)
  /\ \E a, b \in DOMAIN allTorrents :
       /\ a # b
       /\ allTorrents[a].infoHash # <<>>
       /\ allTorrents[a].infoHash = allTorrents[b].infoHash
  /\ \E a, b \in DOMAIN allTorrents :
       /\ a < b
       /\ allTorrents[a].infoHash = <<>>
       /\ allTorrents[b].infoHash = <<>>
       /\ allTorrents[a].title # allTorrents[b].title
       /\ normalize(allTorrents[a].title) = normalize(allTorrents[b].title)
       /\ allTorrents[a].seeders < allTorrents[b].seeders

\* C10: every torrent the mapper produces is single-episode, batch or
\* unclassified: it never has both episodeNumber and episodeRange set.
C10_NeverEpisodeNumberAndRange ==
  \A k \in DOMAIN mappedTorrents :
    ~(mappedTorrents[k].episodeNumber.some /\ mappedTorrents[k].episodeRange.some)

\* C11: every torrent the indexing stored that has an episodeRange has
\* episodeRange.start <= episodeRange.end; a range a title gives backwards
\* is never stored as it stands.
C11_StoredRangesOrdered ==
  \A k \in DOMAIN torrents :
    torrents[k].episodeRange.some
      => torrents[k].episodeRange.v.start <= torrents[k].episodeRange.v.end

\* C12: with episode and season repositories attached, once an indexAnime
\* or indexEpisode call has completed the episode repository holds at most
\* one Episode per (animeId, number) and the season repository at most one
\* Season per (animeId, seasonNumber).
C12_OneEpisodeAndSeasonPerNumber ==
  (repositories /\ nyaaPc \in {"indexedAnime", "indexedEpisode"})
    => /\ \A j, k \in DOMAIN episodes :
            (episodes[j].animeId = episodes[k].animeId
             /\ episodes[j].number = episodes[k].number) => j = k
       /\ \A j, k \in DOMAIN seasons :
            (seasons[j].animeId = seasons[k].animeId
             /\ seasons[j].seasonNumber = seasons[k].seasonNumber) => j = k

\* The providers whose search searchAndUnify has called, and those whose
\* search it has got the answer of: the loop awaits provider i's search
\* inside the iteration that calls it, so both are the providers before i.
SearchesIssued == IF pc \in {"search", "searched"} THEN 1..(i - 1) ELSE {}
SearchesAnswered == IF pc \in {"search", "searched"} THEN 1..(i - 1) ELSE {}

\* C13: searchAndUnify issues all provider queries concurrently: every
\* registered provider's search has been started before any provider's
\* search has completed.
C13_AllSearchesIssuedBeforeAnyAnswer ==
  SearchesAnswered # {} => SearchesIssued = DOMAIN providers

\* The records of raw filed under key, in order.
Under(raw, key) == SelectSeq(raw, LAMBDA a : GroupKey(a) = key)

\* The distinct keys of raw, each at the place of its first appearance.
RECURSIVE KeysInOrder(_)
KeysInOrder(raw) ==
  IF raw = <<>> THEN <<>>
  ELSE LET before == KeysInOrder(SubSeq(raw, 1, Len(raw) - 1))
           key == GroupKey(raw[Len(raw)])
       IN IF key \in Range(before) THEN before ELSE Append(before, key)

SameTitle(raw, a) == SelectSeq(raw, LAMBDA b : DedupKey(b) = DedupKey(a))

\* C15: MiauIndex.searchAnime returns unified records: the record returned
\* for a title is the unifier's output, with mergeArrays true, over the
\* records all providers returned for that title.
C15_SearchAnimeReturnsUnifiedRecords ==
  pc = "animeSearched"
    => \A k \in DOMAIN result :
         LET same == SameTitle(RawResults(fetchLog), result[k])
         IN (\E a, b \in DOMAIN same :
               same[a].externalIds[1].source # same[b].externalIds[1].source)
              => result[k] = unifyAnimeData(same, [ preferredSources |-> None,
                                                    mergeArrays |-> Some(TRUE) ])

\* C16: a search leaves the anime repository as it was when the call began,
\* whether the providers answered or failed.
C16_SearchLeavesRepositoryAlone ==
  pc \in {"search", "searched", "searchAnime", "animeSearched"}
    => animes = animesAtCall

\* A search returned records while a provider failed and the repository
\* held a record before the call.
C16_Witness ==
  /\ pc \in {"searched", "animeSearched"}
  /\ animes # <<>>
  /\ result # <<>>
  /\ \E k \in DOMAIN fetchLog : fetchLog[k].kind = "throw"

\* The stored torrents of the anime asked about that cover the episode
\* asked about, as positions in the repository.
Covering(b) ==
  { k \in DOMAIN torrents :
      /\ torrents[k].animeId = b.animeId
      /\ \/ (torrents[k].episodeNumber.some
             /\ torrents[k].episodeNumber.v = b.episodeNumber)
         \/ (torrents[k].episodeRange.some
             /\ torrents[k].episodeRange.v.start <= b.episodeNumber
             /\ b.episodeNumber <= torrents[k].episodeRange.v.end) }

\* Those of them that pass the minSeeders and trustedOnly options.
Qualifying(b) ==
  { k \in Covering(b) :
      /\ torrents[k].seeders >= nyaaOptions.minSeeders
      /\ nyaaOptions.trustedOnly => torrents[k].trusted }

\* The quality getBestTorrentForEpisode was asked for.
Requested(b) == IF b.quality.some THEN b.quality.v ELSE nyaaOptions.preferredQuality

Tiers == << "4K", "1080p", "720p", "480p" >>

\* C18: getBestQualityForEpisode returns the first of the tiers 4K, 1080p,
\* 720p, 480p that a torrent available for the episode has; when none has a
\* tier, the quality of the highest seeded torrent; null when no torrent is
\* available for the episode.
C18_BestQualityFirstTierElseTop ==
  (nyaaPc = "asked" /\ best.kind = "quality")
    => LET has(q) == \E k \in Covering(best) : torrents[k].metadata.quality = q
       IN IF Covering(best) = {} THEN best.value = <<>>
          ELSE IF \E n \in DOMAIN Tiers : has(Tiers[n])
          THEN \E n \in DOMAIN Tiers :
                 /\ best.value = << Tiers[n] >>
                 /\ has(Tiers[n])
                 /\ \A m \in 1..(n - 1) : ~has(Tiers[m])
          ELSE \E k \in Covering(best) :
                 /\ best.value = << torrents[k].metadata.quality >>
                 /\ \A j \in Covering(best) : torrents[j].seeders <= torrents[k].seeders

\* getBestQualityForEpisode returned a tier although a torrent of a lower
\* tier has more seeders than every torrent of that tier.
C18_Witness ==
  /\ nyaaPc = "asked"
  /\ best.kind = "quality"
  /\ best.value # <<>>
  /\ \E k \in Covering(best) :
       /\ torrents[k].metadata.quality # best.value[1]
       /\ torrents[k].metadata.quality \in Range(Tiers)
       /\ \A j \in Covering(best) :
            torrents[j].metadata.quality = best.value[1]
              => torrents[j].seeders < torrents[k].seeders

\* A query in sanitized form.
IsSanitized(q) ==
  /\ q # <<>> => (q[1] # " " /\ q[Len(q)] # " ")
  /\ \A k \in DOMAIN q : q[k] \notin { "<", ">", "'", "\"" }
  /\ \A k \in 1..(Len(q) - 1) : ~(q[k] = " " /\ q[k + 1] = " ")
  /\ Len(q) <= 200

\* C20: every query the service passes to the Nyaa client, from indexAnime,
\* indexEpisode or refreshTorrent, has no leading or trailing white space,
\* none of the characters < > ' ", no run of white space, and at most 200
\* characters.
C20_QueriesSanitized ==
  \A k \in DOMAIN queries : IsSanitized(queries[k])

\* C19: a list of E >= 1 episodes of one anime is split in order into
\* chunks of 13: ceil(E/13) seasons numbered 1..ceil(E/13) without gaps,
\* every episode in exactly one season's episodes, each season's
\* episodeCount the length of its chunk, and one season for at most 13
\* episodes.
C19_SeasonsPartitionEpisodes ==
  (nyaaPc = "organized" /\ Len(episodeList) >= 1)
    => /\ Len(seasons) = (Len(episodeList) + 12) \div 13
       /\ Len(episodeList) <= 13 => Len(seasons) = 1
       /\ \A k \in DOMAIN seasons :
            /\ seasons[k].seasonNumber = k
            /\ seasons[k].episodeCount = Len(seasons[k].episodes)
            /\ seasons[k].episodeCount = (IF k < Len(seasons) THEN 13
                                          ELSE Len(episodeList) - 13 * (k - 1))
       /\ Flat([k \in DOMAIN seasons |-> seasons[k].episodes]) = episodeList
       /\ \A j \in DOMAIN episodeList :
            Cardinality({ km \in { <<k, m>> : k \in DOMAIN seasons, m \in 1..13 } :
                            /\ km[2] <= Len(seasons[km[1]].episodes)
                            /\ seasons[km[1]].episodes[km[2]] = episodeList[j] }) = 1

\* 27 episodes were organized: two seasons of 13 and a third of one.
C19_Witness ==
  /\ nyaaPc = "organized"
  /\ Len(episodeList) = 27
  /\ Len(seasons) = 3
  /\ seasons[3].episodeCount = 1

(***************************************************************************)
(* Properties of the torrent methods of MiauIndex                          *)
(***************************************************************************)

\* The torrent methods of MiauIndex.
TorrentMethods ==
  { "indexTorrents", "indexEpisodeTorrents", "searchTorrents", "getBestTorrent",
    "getTorrentStats", "refreshTorrent", "getNyaaMetrics", "clearNyaaCache",
    "refreshAllTorrents", "getTorrentsByQuality", "getBestQualityForEpisode" }

\* C21: on a MiauIndex whose Nyaa extension is not enabled, a torrent
\* method that was called threw the error that names the Nyaa extension as
\* not enabled; it returned nothing, and no repository, cache or counter
\* changed.
C21_DisabledExtensionThrows ==
  ~nyaaService
    => /\ nyaaPc \in {"idle", "threw"}
       /\ nyaaPc = "threw"
            => facadeCall.op \in TorrentMethods /\ facadeCall.error = NyaaNotEnabled
       /\ best = NotAsked
       /\ indexedTorrents = <<>>
       /\ torrents = <<>>
       /\ episodes = <<>>
       /\ seasons = <<>>
       /\ animes = <<>>
       /\ searchCache = <<>>
       /\ searchMetrics = NoSearches
       /\ indexMetrics = NothingIndexed
       /\ queries = <<>>

\* getTorrentStats was called on a MiauIndex without the extension, and
\* threw.
C21_Witness ==
  /\ ~nyaaService
  /\ nyaaPc = "threw"
  /\ facadeCall = [op |-> "getTorrentStats", error |-> NyaaNotEnabled]

(***************************************************************************)
(* Properties of the indexing with episode and season repositories         *)
(***************************************************************************)

\* C22: when the lookup or the creation of the season (of the episode)
\* fails while a Nyaa result is mapped, the mapper goes on and its torrent
\* has no seasonId (no episodeIds); the indexing call does not throw, and
\* every mapper's torrent, those of the failed lookups included, is among
\* the torrents mapped when the mapping of the query ends.
C22_FailedLookupKeepsTorrent ==
  [][ /\ \A k \in DOMAIN mappers' :
           /\ "season" \in mappers'[k].caught
                => /\ mappers'[k].torrent.seasonId = NoNumber
                   /\ mappers'[k].pc \in {"findEpisode", "saveEpisode", "done"}
           /\ "episode" \in mappers'[k].caught
                => /\ mappers'[k].torrent.episodeIds = <<>>
                   /\ mappers'[k].pc = "done"
      /\ (nyaaPc = "mapping" /\ nyaaPc' # "mapping")
           => /\ nyaaPc' \in {"searching", "indexedAnime", "indexedEpisode"}
              /\ Len(mappedTorrents') >= Len(mappers)
              /\ \A k \in DOMAIN mappers :
                   mappedTorrents'[Len(mappedTorrents') - Len(mappers) + k]
                     = mappers[k].torrent ]_vars

\* An indexing call returned after the season lookup of one result failed:
\* two torrents were mapped, and one of a title that names a season has no
\* seasonId while its episode was still looked up and linked.
C22_Witness ==
  /\ nyaaPc \in {"indexedAnime", "indexedEpisode"}
  /\ \E a, b \in DOMAIN mappedTorrents :
       /\ TruthyNumber(extractSeasonNumber(mappedTorrents[a].title))
       /\ mappedTorrents[a].seasonId = NoNumber
       /\ mappedTorrents[a].episodeIds # <<>>
       /\ a # b

\* The places (1 romaji, 2 English, 3 native) whose title, sanitized, is the
\* query.
VariantPlaces(anime, query) ==
  LET t == << anime.title.romaji, anime.title.english, anime.title.native >>
  IN { j \in 1..3 : Truthy(t[j]) /\ sanitizeSearchQuery(t[j].v) = query }

IdsAscend(found) ==
  \A a, b \in DOMAIN found : a < b => found[a].id < found[b].id

\* C23: within one indexAnime call the queries go out in the order romaji,
\* English, native; a search starts only when no mapper of the previous
\* query is left; the valid torrents are appended in the order the queries
\* were mapped; the deduplication runs once, on the whole list, when the
\* last query has been mapped.
C23_VariantsOneAfterAnother ==
  [][ /\ indexing'.kind = "indexAnime"
        => /\ \A a, b \in DOMAIN queries' :
                a < b =>
                  \E ja \in VariantPlaces(indexing'.anime, queries'[a]),
                     jb \in VariantPlaces(indexing'.anime, queries'[b]) : ja < jb
           /\ indexedTorrents' = <<>>
      /\ queries' # queries
        => /\ mappers = <<>>
           /\ microtasks = <<>>
           /\ queries' = Append(queries, CurrentQuery)
      /\ (nyaaPc = "mapping" /\ nyaaPc' # "mapping")
        => /\ microtasks = <<>>
           /\ \A k \in DOMAIN mappers : mappers[k].pc = "done"
           /\ allTorrents' = allTorrents \o FilterValid(Mapped, nyaaOptions)
      /\ IdsAscend(allTorrents')
      /\ nyaaPc' = "indexedAnime"
        => indexedTorrents' = deduplicateTorrents(allTorrents') ]_vars

\* An indexAnime call returned after three queries, each answered with the
\* same release: the three torrents were deduplicated to fewer.
C23_Witness ==
  /\ nyaaPc = "indexedAnime"
  /\ Len(queries) = 3
  /\ Len(allTorrents) >= 3
  /\ Len(indexedTorrents) < Len(allTorrents)

(***************************************************************************)
(* Properties of the rate limiter                                          *)
(***************************************************************************)

\* The functions execute ran for the key at a time from start up to, not
\* including, start + windowMs.
RanInWindow(key, start) ==
  { c \in DOMAIN calls :
      /\ calls[c].key = key
      /\ calls[c].pc \in {"running", "returned", "threw"}
      /\ calls[c].at >= start
      /\ calls[c].at < start + limiterOptions.windowMs }

\* C24: for every key and every window of windowMs, execute ran at most
\* maxRequests functions for the key within the window, overlapping calls
\* included.
C24_AtMostMaxRequestsPerWindow ==
  \A key \in LimiterKeys, start \in 0..MaxTime :
    Cardinality(RanInWindow(key, start)) <= limiterOptions.maxRequests

(***************************************************************************)
(* Properties of the Nyaa service across calls                             *)
(***************************************************************************)

\* C25: the number refreshAllTorrents returns is the number of the anime's
\* stored torrents that the call updated from a Nyaa result; a torrent whose
\* search failed or found nothing is not counted.
C25_RefreshAllCountsUpdated ==
  (nyaaPc = "refreshed" /\ best.kind = "refreshAll") => best.value = best.updated

\* C28: whatever indexAnime calls were made for an anime, the repository
\* holds at most one torrent of the anime for each non-empty info hash.
C28_OneStoredTorrentPerInfoHash ==
  \A a, b \in DOMAIN torrents :
    ( /\ torrents[a].animeId = torrents[b].animeId
      /\ torrents[a].infoHash # <<>>
      /\ torrents[a].infoHash = torrents[b].infoHash ) => a = b

\* hits + misses <= searches, with equality when the cache is enabled.
MetricsAddUp(m) ==
  /\ m.cacheHits + m.cacheMisses <= m.totalSearches
  /\ nyaaOptions.enableCache => m.cacheHits + m.cacheMisses = m.totalSearches

\* The rate, a fraction, lies between 0 and 100, and is 0 with no search.
RateInRange(m) ==
  /\ m.cacheHitRate[2] > 0
  /\ m.cacheHitRate[1] >= 0
  /\ m.cacheHitRate[1] <= 100 * m.cacheHitRate[2]
  /\ m.totalSearches = 0 => m.cacheHitRate[1] = 0

\* C29: cacheHits + cacheMisses never exceeds totalSearches and equals it
\* when the cache is enabled; totalSearches never decreases; the
\* cacheHitRate of getMetrics lies in [0, 100] and is 0 before any search.
C29_MetricsConsistent ==
  [][ /\ MetricsAddUp(searchMetrics) /\ MetricsAddUp(searchMetrics')
      /\ searchMetrics'.totalSearches >= searchMetrics.totalSearches
      /\ RateInRange(getMetrics) /\ RateInRange(getMetrics') ]_vars

\* Two searches were made with the cache enabled, one answered from the
\* cache: the hit rate is 50.
C29_Witness ==
  /\ nyaaOptions.enableCache
  /\ searchMetrics = [totalSearches |-> 2, cacheHits |-> 1, cacheMisses |-> 1]
  /\ getMetrics.cacheHitRate = << 100, 2 >>

\* The fields of a stored torrent that refreshTorrent may change are left
\* out of the comparison.
SameButRefreshed(before, after) ==
  after = [before EXCEPT !.seeders = after.seeders, !.leechers = after.leechers,
                         !.downloads = after.downloads,
                         !.lastChecked = after.lastChecked]

\* C30: refreshTorrent of an unknown id changes nothing; of a stored
\* torrent it changes at most the seeders, leechers, downloads and
\* lastChecked of that torrent, to the values of a Nyaa result with the
\* torrent's nyaaId, and nothing when the search fails or finds nothing.
C30_RefreshUpdatesFromSameTorrent ==
  [][ (nyaaPc' = "refreshed" /\ best'.kind = "refresh")
        => IF ~best'.found THEN torrents' = torrents
           ELSE /\ DOMAIN torrents' = DOMAIN torrents
                /\ \A k \in DOMAIN torrents :
                     IF torrents[k].id # best'.id THEN torrents'[k] = torrents[k]
                     ELSE /\ SameButRefreshed(torrents[k], torrents'[k])
                          /\ \/ torrents'[k] = torrents[k]
                             \/ \E r \in nyaaSite :
                                  /\ r.id = torrents[k].nyaaId
                                  /\ torrents'[k] =
                                       updateTorrentFromNyaaResult(torrents[k], r) ]_vars

(***************************************************************************)
(* Properties of the local repository of MiauIndex                         *)
(***************************************************************************)

\* C26: getStats returns, as totalAnime, the number of anime stored, and
\* the counts by type, by status and by source taken over every stored
\* anime.
C26_StatsCoverAllStored ==
  pc = "stats" => result = << StatsOf(animes) >>

\* C27: when clearLocal has returned the repository is empty, and
\* getAllLocal returns every stored record when fewer than 1000 are stored.
C27_ClearLocalEmptiesRepository ==
  /\ pc = "cleared" => count(animes) = 0
  /\ (pc = "allLocal" /\ count(animes) < GetAllLocalLimit) => result = animes

====
